---- MODULE Spec2Model ----
(***************************************************************************)
(* Model of the package parsing core of nupkg-viewer                       *)
(* (NuGetPackageParser in packageParser.ts): parsePackage, getFileContent  *)
(* and the file-name classification helpers.                               *)
(*                                                                         *)
(* Strings are sequences of one-character strings, so that endsWith,       *)
(* toLowerCase, includes, path.basename and path.extname are computed and  *)
(* not assumed.                                                            *)
(***************************************************************************)
EXTENDS Integers, Sequences, FiniteSets, TLC

(***************************************************************************)
(* Bounds of the model.                                                    *)
(***************************************************************************)
\* longest archive (number of central-directory entries) explored
MaxEntries == 3

(***************************************************************************)
(* String helpers (JavaScript String / Node path, posix flavour).          *)
(***************************************************************************)
UpperChars == <<"A","B","C","D","E","F","G","H","I","J","K","L","M",
                "N","O","P","Q","R","S","T","U","V","W","X","Y","Z">>
LowerChars == <<"a","b","c","d","e","f","g","h","i","j","k","l","m",
                "n","o","p","q","r","s","t","u","v","w","x","y","z">>

LowerChar(c) ==
    IF \E i \in 1..Len(UpperChars) : UpperChars[i] = c
    THEN LowerChars[CHOOSE i \in 1..Len(UpperChars) : UpperChars[i] = c]
    ELSE c

\* String.prototype.toLowerCase
toLowerCase(s) == [i \in 1..Len(s) |-> LowerChar(s[i])]

\* String.prototype.endsWith
endsWith(s, suf) ==
    /\ Len(s) >= Len(suf)
    /\ SubSeq(s, Len(s) - Len(suf) + 1, Len(s)) = suf

\* String.prototype.startsWith
startsWith(s, pre) ==
    /\ Len(s) >= Len(pre)
    /\ SubSeq(s, 1, Len(pre)) = pre

\* String.prototype.includes
includes(s, sub) ==
    \E i \in 1..(Len(s) - Len(sub) + 1) : SubSeq(s, i, i + Len(sub) - 1) = sub

\* index of the last occurrence of character c in s, 0 when there is none
LastIndexOf(s, c) ==
    IF \E i \in 1..Len(s) : s[i] = c
    THEN CHOOSE i \in 1..Len(s) : s[i] = c /\ \A j \in (i+1)..Len(s) : s[j] # c
    ELSE 0

\* the path without its trailing separators
RECURSIVE StripTrailingSlashes(_)
StripTrailingSlashes(p) ==
    IF Len(p) > 0 /\ p[Len(p)] = "/"
    THEN StripTrailingSlashes(SubSeq(p, 1, Len(p) - 1))
    ELSE p

\* path.basename: the last segment, trailing separators ignored
basename(p) ==
    LET q == StripTrailingSlashes(p)
    IN  SubSeq(q, LastIndexOf(q, "/") + 1, Len(q))

\* path.extname: from the last "." of the last segment to its end; empty when
\* there is no ".", when the "." is the first character of the segment, or
\* when the segment is ".."
extname(p) ==
    LET b == basename(p)
        d == LastIndexOf(b, ".")
    IN  IF d = 0 \/ d = 1 \/ b = <<".", ".">>
        THEN <<>>
        ELSE SubSeq(b, d, Len(b))

(***************************************************************************)
(* File-name classification (packageParser.ts, isIconFile .. isMcpServer-  *)
(* File) and the test of the manifest branch.                              *)
(***************************************************************************)
DotNuspec == <<".","n","u","s","p","e","c">>

iconExtensions ==
    { <<".","p","n","g">>, <<".","j","p","g">>, <<".","j","p","e","g">>,
      <<".","g","i","f">>, <<".","b","m","p">>, <<".","i","c","o">> }

readmeNames ==
    { <<"r","e","a","d","m","e",".","m","d">>,
      <<"r","e","a","d","m","e",".","t","x","t">>,
      <<"r","e","a","d","m","e",".","r","s","t">>,
      <<"r","e","a","d","m","e">> }

licenseNames ==
    { <<"l","i","c","e","n","s","e">>,
      <<"l","i","c","e","n","s","e",".","m","d">>,
      <<"l","i","c","e","n","s","e",".","t","x","t">>,
      <<"l","i","c","e","n","s","e",".","r","s","t">>,
      <<"l","i","c","e","n","c","e">>,
      <<"l","i","c","e","n","c","e",".","m","d">>,
      <<"l","i","c","e","n","c","e",".","t","x","t">>,
      <<"l","i","c","e","n","c","e",".","r","s","t">>,
      <<"c","o","p","y","i","n","g">>,
      <<"c","o","p","y","i","n","g",".","m","d">>,
      <<"c","o","p","y","i","n","g",".","t","x","t">> }

McpServerPath == <<".","m","c","p","/","s","e","r","v","e","r",".","j","s","o","n">>

\* fileName.endsWith('.nuspec')
isNuspecFile(fileName) == endsWith(fileName, DotNuspec)

\* a plausible slip: the extension test is left out
isIconFileAnyExtension(fileName) ==
    includes(toLowerCase(fileName), <<"i","c","o","n">>)

isIconFile(fileName) ==
    /\ toLowerCase(extname(fileName)) \in iconExtensions
    /\ includes(toLowerCase(fileName), <<"i","c","o","n">>)

isReadmeFile(fileName) ==
    LET baseName == toLowerCase(basename(fileName))
    IN  \/ baseName \in readmeNames
        \/ startsWith(baseName, <<"r","e","a","d","m","e",".">>)

isLicenseFile(fileName) ==
    LET baseName == toLowerCase(basename(fileName))
    IN  \/ baseName \in licenseNames
        \/ startsWith(baseName, <<"l","i","c","e","n","s","e",".">>)
        \/ startsWith(baseName, <<"l","i","c","e","n","c","e",".">>)

\* a plausible slip: the descriptor is recognised by its base name
isMcpServerFileByName(fileName) ==
    toLowerCase(basename(fileName)) = <<"s","e","r","v","e","r",".","j","s","o","n">>

isMcpServerFile(fileName) == toLowerCase(fileName) = McpServerPath

(***************************************************************************)
(* Optional values: undefined is the empty set, a defined value v is {v}.  *)
(***************************************************************************)
Undefined == {}
Def(v) == {v}
IsDefined(x) == x # {}
Val(x) == CHOOSE v \in x : TRUE

(***************************************************************************)
(* String.prototype.localeCompare on the characters archive paths use      *)
(* (root collation): punctuation "_" "-" "." "/" sorts before digits,      *)
(* digits before letters, letters compare without case first and lower     *)
(* case before upper case on a tie of the whole string.                    *)
(***************************************************************************)
Punctuation == <<"_", "-", ".", "/">>
Digits == <<"0","1","2","3","4","5","6","7","8","9">>

IndexIn(seq, c) == CHOOSE i \in 1..Len(seq) : seq[i] = c
Occurs(seq, c) == \E i \in 1..Len(seq) : seq[i] = c

\* primary collation weight of a character
PrimaryWeight(c) ==
    IF Occurs(Punctuation, c) THEN IndexIn(Punctuation, c)
    ELSE IF Occurs(Digits, c) THEN 10 + IndexIn(Digits, c)
    ELSE IF Occurs(LowerChars, c) THEN 30 + IndexIn(LowerChars, c)
    ELSE IF Occurs(UpperChars, c) THEN 30 + IndexIn(UpperChars, c)
    ELSE 100

\* tertiary (case) weight of a character
TertiaryWeight(c) == IF Occurs(UpperChars, c) THEN 1 ELSE 0

\* lexicographic comparison of two sequences of numbers: -1, 0 or 1
RECURSIVE CompareWeights(_, _)
CompareWeights(a, b) ==
    IF Len(a) = 0 /\ Len(b) = 0 THEN 0
    ELSE IF Len(a) = 0 THEN -1
    ELSE IF Len(b) = 0 THEN 1
    ELSE IF Head(a) < Head(b) THEN -1
    ELSE IF Head(a) > Head(b) THEN 1
    ELSE CompareWeights(Tail(a), Tail(b))

localeCompare(a, b) ==
    LET p == CompareWeights([i \in 1..Len(a) |-> PrimaryWeight(a[i])],
                            [i \in 1..Len(b) |-> PrimaryWeight(b[i])])
    IN  IF p # 0 THEN p
        ELSE CompareWeights([i \in 1..Len(a) |-> TertiaryWeight(a[i])],
                            [i \in 1..Len(b) |-> TertiaryWeight(b[i])])

\* Array.prototype.sort with (a, b) => a.path.localeCompare(b.path): stable
RECURSIVE InsertSorted(_, _)
InsertSorted(sorted, f) ==
    IF Len(sorted) = 0 THEN <<f>>
    ELSE IF localeCompare(f.path, sorted[Len(sorted)].path) >= 0
         THEN Append(sorted, f)
         ELSE Append(InsertSorted(SubSeq(sorted, 1, Len(sorted) - 1), f),
                     sorted[Len(sorted)])

RECURSIVE SortByPath(_)
SortByPath(fs) ==
    IF Len(fs) = 0 THEN <<>>
    ELSE InsertSorted(SortByPath(SubSeq(fs, 1, Len(fs) - 1)), fs[Len(fs)])

(***************************************************************************)
(* buildFileTree.  Objects are shared by reference between the flat list,  *)
(* pathMap and the tree, so the tree is a heap: nodes is the sequence of   *)
(* PackageFile objects (the sorted flat list first, synthesized directory  *)
(* objects after it), children and tree hold indices into nodes, pathMap   *)
(* maps a path to an index.                                                *)
(***************************************************************************)
\* file.path.split('/').filter(p => p)
RECURSIVE SplitPath(_)
SplitPath(p) ==
    IF Len(p) = 0 THEN <<>>
    ELSE IF \E i \in 1..Len(p) : p[i] = "/"
         THEN LET k == CHOOSE i \in 1..Len(p) :
                           p[i] = "/" /\ \A j \in 1..(i-1) : p[j] # "/"
                  rest == SplitPath(SubSeq(p, k + 1, Len(p)))
              IN  IF k = 1 THEN rest ELSE <<SubSeq(p, 1, k - 1)>> \o rest
         ELSE <<p>>

\* a heap: the objects, the top-level array and the path lookup
Heap(nodes, tree, pathMap) ==
    [nodes |-> nodes, tree |-> tree, pathMap |-> pathMap]

\* the object node with its children array replaced
WithChildren(node, children) ==
    [path |-> node.path, name |-> node.name, size |-> node.size,
     isDirectory |-> node.isDirectory, children |-> children]

\* nodes with the children array of nodes[k] replaced
SetChildren(nodes, k, children) ==
    [i \in 1..Len(nodes) |->
        IF i = k THEN WithChildren(nodes[i], children) ELSE nodes[i]]

\* currentLevel.push(id): level 0 is the top-level array, level k > 0 is
\* nodes[k].children
PushToLevel(h, level, id) ==
    IF level = 0
    THEN Heap(h.nodes, Append(h.tree, id), h.pathMap)
    ELSE Heap(SetChildren(h.nodes, level,
                          Def(Append(Val(h.nodes[level].children), id))),
              h.tree, h.pathMap)

\* a plausible slip: the path lookup is skipped and a directory object is
\* made for every file
WalkStepAlwaysCreate(w, part) ==
    LET currentPath == (IF Len(w.currentPath) > 0
                        THEN w.currentPath \o <<"/">> ELSE <<>>) \o part
        key == currentPath \o <<"/">>
        newId == Len(w.h.nodes) + 1
        dir == [path |-> key, name |-> part, size |-> 0,
                isDirectory |-> TRUE, children |-> Def(<<>>)]
        h1 == PushToLevel(Heap(Append(w.h.nodes, dir), w.h.tree,
                               (key :> newId) @@ w.h.pathMap),
                          w.level, newId)
    IN  [h |-> h1, currentPath |-> currentPath, level |-> newId]

\* a plausible slip: the parent is looked up and stored under the path
\* without the trailing slash, where a file of that name is stored too
WalkStepBareKey(w, part) ==
    LET currentPath == (IF Len(w.currentPath) > 0
                        THEN w.currentPath \o <<"/">> ELSE <<>>) \o part
        key == currentPath
        found == key \in DOMAIN w.h.pathMap
        newId == Len(w.h.nodes) + 1
        h1 == IF found THEN w.h
              ELSE LET dir == [path |-> currentPath \o <<"/">>, name |-> part,
                               size |-> 0, isDirectory |-> TRUE,
                               children |-> Def(<<>>)]
                   IN  PushToLevel(Heap(Append(w.h.nodes, dir), w.h.tree,
                                        (key :> newId) @@ w.h.pathMap),
                                   w.level, newId)
        existing == IF found THEN w.h.pathMap[key] ELSE newId
        h2 == IF IsDefined(h1.nodes[existing].children) THEN h1
              ELSE Heap(SetChildren(h1.nodes, existing, Def(<<>>)),
                        h1.tree, h1.pathMap)
    IN  [h |-> h2, currentPath |-> currentPath, level |-> existing]

\* one iteration of the inner loop (lines 417-438): w = [h, currentPath, level]
WalkStep(w, part) ==
    LET currentPath == (IF Len(w.currentPath) > 0
                        THEN w.currentPath \o <<"/">> ELSE <<>>) \o part
        key == currentPath \o <<"/">>
        found == key \in DOMAIN w.h.pathMap
        newId == Len(w.h.nodes) + 1
        h1 == IF found THEN w.h
              ELSE LET dir == [path |-> key, name |-> part, size |-> 0,
                               isDirectory |-> TRUE, children |-> Def(<<>>)]
                   IN  PushToLevel(Heap(Append(w.h.nodes, dir), w.h.tree,
                                        (key :> newId) @@ w.h.pathMap),
                                   w.level, newId)
        existing == IF found THEN w.h.pathMap[key] ELSE newId
        h2 == IF IsDefined(h1.nodes[existing].children) THEN h1
              ELSE Heap(SetChildren(h1.nodes, existing, Def(<<>>)),
                        h1.tree, h1.pathMap)
    IN  [h |-> h2, currentPath |-> currentPath, level |-> existing]

RECURSIVE Walk(_, _, _)
Walk(w, parts, i) ==
    IF i > Len(parts) - 1 THEN w
    ELSE Walk(WalkStep(w, parts[i]), parts, i + 1)

\* the body of the outer loop for the file object nodes[id]
PlaceFile(h, id) ==
    LET file == h.nodes[id]
        parts == SplitPath(file.path)
    IN  IF Len(parts) = 1
        THEN Heap(h.nodes, Append(h.tree, id), (file.path :> id) @@ h.pathMap)
        ELSE LET w == Walk([h |-> h, currentPath |-> <<>>, level |-> 0], parts, 1)
                 h1 == PushToLevel(w.h, w.level, id)
             IN  Heap(h1.nodes, h1.tree, (file.path :> id) @@ h1.pathMap)

RECURSIVE PlaceFiles(_, _, _)
PlaceFiles(h, id, n) ==
    IF id > n THEN h ELSE PlaceFiles(PlaceFile(h, id), id + 1, n)

\* the heap after buildFileTree(files): tree lists the top-level nodes
buildFileTree(fs) ==
    LET sorted == SortByPath(fs)
        h0 == Heap([i \in 1..Len(sorted) |-> WithChildren(sorted[i], Undefined)],
                   <<>>, <<>>)
    IN  PlaceFiles(h0, 1, Len(sorted))

(***************************************************************************)
(* Buffers and text.  A Buffer is a sequence of byte values; toString      *)
(* ('utf8') decodes each byte below 128 to its character and every other   *)
(* byte to the replacement character.                                      *)
(***************************************************************************)
AsciiCodes == <<47, 60, 62, 97, 98, 104, 105>>
AsciiChars == <<"/", "<", ">", "a", "b", "h", "i">>
ReplacementChar == "?"

CharOfByte(b) ==
    IF Occurs(AsciiCodes, b) THEN AsciiChars[IndexIn(AsciiCodes, b)]
    ELSE ReplacementChar

\* a plausible slip: only the last chunk is kept
BufferConcatLast(cs) ==
    IF Len(cs) = 0 THEN <<>> ELSE cs[Len(cs)]

\* Buffer.concat(chunks)
RECURSIVE BufferConcat(_)
BufferConcat(cs) ==
    IF Len(cs) = 0 THEN <<>> ELSE Head(cs) \o BufferConcat(Tail(cs))

\* buffer.toString('utf8')
toStringUtf8(buf) == [i \in 1..Len(buf) |-> CharOfByte(buf[i])]

(***************************************************************************)
(* parseNuspec on the tree xml2js makes of the manifest.  An element is    *)
(* [text, attrs, kids]: its character data, its attributes (a function     *)
(* from names to values) and its child elements by name, each name an     *)
(* array of elements.  xml2js hands an element without attributes and      *)
(* without children to the program as a plain string (the empty string    *)
(* when it has no text), gives an object the key $ only when the element   *)
(* has attributes and the key _ only when it has text.                     *)
(***************************************************************************)
XNode(text, attrs, kids) == [text |-> text, attrs |-> attrs, kids |-> kids]

\* no attributes, no children
NoAttrs == [a \in {} |-> <<>>]
NoKids == [k \in {} |-> <<>>]

\* typeof n === 'string'
IsStringNode(n) == DOMAIN n.attrs = {} /\ DOMAIN n.kids = {}

\* !n
IsFalsy(n) == IsStringNode(n) /\ n.text = <<>>

\* n.$
AttrsOf(n) == IF DOMAIN n.attrs = {} THEN Undefined ELSE Def(n.attrs)

\* n._
CharsOf(n) == IF IsStringNode(n) \/ n.text = <<>> THEN Undefined ELSE Def(n.text)

\* n[key] for an element name
ChildOf(n, key) == IF key \in DOMAIN n.kids THEN Def(n.kids[key]) ELSE Undefined

\* n.$.a where n.$ is an object
AttrOf(n, a) == IF a \in DOMAIN n.attrs THEN Def(n.attrs[a]) ELSE Undefined

\* getText(node), node an optional array of elements
getText(node) ==
    IF ~IsDefined(node) \/ IsFalsy(Val(node)[1]) THEN Undefined
    ELSE IF IsStringNode(Val(node)[1]) THEN Def(Val(node)[1].text)
    ELSE CharsOf(Val(node)[1])

\* s.trim()
RECURSIVE TrimLeft(_)
TrimLeft(s) == IF s # <<>> /\ Head(s) = " " THEN TrimLeft(Tail(s)) ELSE s
RECURSIVE TrimRight(_)
TrimRight(s) ==
    IF s # <<>> /\ s[Len(s)] = " " THEN TrimRight(SubSeq(s, 1, Len(s) - 1)) ELSE s
trim(s) == TrimRight(TrimLeft(s))

\* text.split(',')
RECURSIVE split(_)
split(s) ==
    IF \E i \in 1..Len(s) : s[i] = ","
    THEN LET k == CHOOSE i \in 1..Len(s) :
                      s[i] = "," /\ \A j \in 1..(i - 1) : s[j] # ","
         IN  <<SubSeq(s, 1, k - 1)>> \o split(SubSeq(s, k + 1, Len(s)))
    ELSE <<s>>

\* a plausible slip: the pieces are filtered but not trimmed
RECURSIVE FilterOnly(_)
FilterOnly(pieces) ==
    IF pieces = <<>> THEN <<>>
    ELSE (IF Head(pieces) = <<>> THEN <<>> ELSE <<Head(pieces)>>)
         \o FilterOnly(Tail(pieces))

\* pieces.map(s => s.trim()).filter(s => s)
RECURSIVE TrimAndFilter(_)
TrimAndFilter(pieces) ==
    IF pieces = <<>> THEN <<>>
    ELSE (IF trim(Head(pieces)) = <<>> THEN <<>> ELSE <<trim(Head(pieces))>>)
         \o TrimAndFilter(Tail(pieces))

\* getTextArray(node)
getTextArray(node) ==
    LET text == getText(node)
    IN  IF ~IsDefined(text) \/ Val(text) = <<>> THEN <<>>
        ELSE TrimAndFilter(split(Val(text)))

\* the record pushed for one dependency element
DependencyOf(dep, targetFramework) ==
    [id |-> AttrOf(dep, "id"), version |-> AttrOf(dep, "version"),
     targetFramework |-> targetFramework,
     exclude |-> AttrOf(dep, "exclude"), include |-> AttrOf(dep, "include")]

\* the records pushed for an array of dependency elements
RECURSIVE DependenciesOf(_, _)
DependenciesOf(deps, targetFramework) ==
    IF deps = <<>> THEN <<>>
    ELSE <<DependencyOf(Head(deps), targetFramework)>>
         \o DependenciesOf(Tail(deps), targetFramework)

\* the loop over deps.group
RECURSIVE GroupDependencies(_)
GroupDependencies(groups) ==
    IF groups = <<>> THEN <<>>
    ELSE LET group == Head(groups)
             inner == ChildOf(group, "dependency")
         IN  (IF IsDefined(inner)
              THEN DependenciesOf(Val(inner), AttrOf(group, "targetFramework"))
              ELSE <<>>)
             \o GroupDependencies(Tail(groups))

\* the elements of which the code reads .$ and then a property of it
DereferencedOf(md) ==
    LET deps == ChildOf(md, "dependencies")
        types == ChildOf(md, "packageTypes")
        repo == ChildOf(md, "repository")
        groups == IF IsDefined(deps) /\ ~IsFalsy(Val(deps)[1])
                  THEN ChildOf(Val(deps)[1], "group") ELSE Undefined
        bare == IF IsDefined(deps) /\ ~IsFalsy(Val(deps)[1]) /\ ~IsDefined(groups)
                THEN ChildOf(Val(deps)[1], "dependency") ELSE Undefined
        ElementsOf(arr) == IF IsDefined(arr)
                           THEN { Val(arr)[i] : i \in 1..Len(Val(arr)) } ELSE {}
        grouped == UNION { ElementsOf(ChildOf(g, "dependency")) : g \in ElementsOf(groups) }
        typed == IF IsDefined(types) /\ ~IsFalsy(Val(types)[1])
                 THEN ElementsOf(ChildOf(Val(types)[1], "packageType")) ELSE {}
        repos == IF IsDefined(repo) THEN {Val(repo)[1]} ELSE {}
    IN  ElementsOf(groups) \cup grouped \cup ElementsOf(bare) \cup typed \cup repos

\* a plausible slip: the bare dependency children are read as well when
\* groups are present
dependenciesBareToo(md) ==
    LET deps == ChildOf(md, "dependencies")
    IN  IF ~IsDefined(deps) \/ IsFalsy(Val(deps)[1]) THEN <<>>
        ELSE (IF IsDefined(ChildOf(Val(deps)[1], "group"))
              THEN GroupDependencies(Val(ChildOf(Val(deps)[1], "group")))
              ELSE <<>>)
             \o (IF IsDefined(ChildOf(Val(deps)[1], "dependency"))
                 THEN DependenciesOf(Val(ChildOf(Val(deps)[1], "dependency")),
                                     Undefined)
                 ELSE <<>>)

\* the dependencies array of parseNuspec
dependencies(md) ==
    LET deps == ChildOf(md, "dependencies")
    IN  IF ~IsDefined(deps) \/ IsFalsy(Val(deps)[1]) THEN <<>>
        ELSE IF IsDefined(ChildOf(Val(deps)[1], "group"))
        THEN GroupDependencies(Val(ChildOf(Val(deps)[1], "group")))
        ELSE IF IsDefined(ChildOf(Val(deps)[1], "dependency"))
        THEN DependenciesOf(Val(ChildOf(Val(deps)[1], "dependency")), Undefined)
        ELSE <<>>

\* packageType.$.name || ''
NameOrEmpty(packageType) ==
    IF IsDefined(AttrOf(packageType, "name")) THEN Val(AttrOf(packageType, "name"))
    ELSE <<>>

\* the packageTypes array of parseNuspec
packageTypes(md) ==
    LET types == ChildOf(md, "packageTypes")
        list == IF IsDefined(types) /\ ~IsFalsy(Val(types)[1])
                THEN ChildOf(Val(types)[1], "packageType") ELSE Undefined
    IN  IF ~IsDefined(list) THEN <<>>
        ELSE [i \in 1..Len(Val(list)) |->
                 [name |-> NameOrEmpty(Val(list)[i]),
                  version |-> AttrOf(Val(list)[i], "version")]]

\* license and licenseType
license(md) ==
    LET node == ChildOf(md, "license")
    IN  IF IsDefined(node) /\ ~IsFalsy(Val(node)[1]) THEN getText(node) ELSE Undefined

licenseType(md) ==
    LET node == ChildOf(md, "license")
    IN  IF IsDefined(node) /\ ~IsFalsy(Val(node)[1])
           /\ IsDefined(AttrOf(Val(node)[1], "type"))
           /\ Val(AttrOf(Val(node)[1], "type")) # <<>>
        THEN AttrOf(Val(node)[1], "type") ELSE Undefined

\* metadata.repository?.[0]?.$.url and .type
RepositoryAttr(md, a) ==
    IF IsDefined(ChildOf(md, "repository"))
    THEN AttrOf(Val(ChildOf(md, "repository"))[1], a) ELSE Undefined

\* a plausible slip: any text counts as true
IsAnyText(node) == IsDefined(getText(node))

\* getText(node) === 'true'
IsLiteralTrue(node) == getText(node) = Def(<<"t","r","u","e">>)

\* getText(node) || ''
TextOrEmpty(node) == IF IsDefined(getText(node)) THEN Val(getText(node)) ELSE <<>>

\* the NuGetPackageMetadata assembled from the metadata element
parsedMetadata(md) ==
    [id |-> TextOrEmpty(ChildOf(md, "id")),
     version |-> TextOrEmpty(ChildOf(md, "version")),
     title |-> getText(ChildOf(md, "title")),
     description |-> getText(ChildOf(md, "description")),
     authors |-> getTextArray(ChildOf(md, "authors")),
     owners |-> getTextArray(ChildOf(md, "owners")),
     licenseUrl |-> getText(ChildOf(md, "licenseUrl")),
     license |-> license(md),
     licenseType |-> licenseType(md),
     projectUrl |-> getText(ChildOf(md, "projectUrl")),
     repositoryUrl |-> RepositoryAttr(md, "url"),
     repositoryType |-> RepositoryAttr(md, "type"),
     iconUrl |-> getText(ChildOf(md, "iconUrl")),
     tags |-> getTextArray(ChildOf(md, "tags")),
     releaseNotes |-> getText(ChildOf(md, "releaseNotes")),
     copyright |-> getText(ChildOf(md, "copyright")),
     requireLicenseAcceptance |->
         IsLiteralTrue(ChildOf(md, "requireLicenseAcceptance")),
     dependencies |-> dependencies(md),
     language |-> getText(ChildOf(md, "language")),
     developmentDependency |->
         IsLiteralTrue(ChildOf(md, "developmentDependency")),
     serviceable |-> IsLiteralTrue(ChildOf(md, "serviceable")),
     packageTypes |-> packageTypes(md)]

\* parseNuspec from the decoding on: doc is what parseStringPromise gave,
\* [wellFormed, root, element]; the call fails when the decoder rejects,
\* when result.package or pkg.metadata is undefined, and when a property
\* is read of the undefined $ of an element without attributes
parseNuspecDoc(doc) ==
    IF ~doc.wellFormed THEN [ok |-> FALSE, value |-> Undefined]
    ELSE IF doc.root # "package" THEN [ok |-> FALSE, value |-> Undefined]
    ELSE IF ~IsDefined(ChildOf(doc.element, "metadata"))
    THEN [ok |-> FALSE, value |-> Undefined]
    ELSE LET md == Val(ChildOf(doc.element, "metadata"))[1]
         IN  IF \E n \in DereferencedOf(md) : ~IsDefined(AttrsOf(n))
             THEN [ok |-> FALSE, value |-> Undefined]
             ELSE [ok |-> TRUE, value |-> Def(parsedMetadata(md))]

\* ---- the manifests parseNuspec is run on
\* an array holding one element with character data only
TextElement(t) == <<XNode(t, NoAttrs, NoKids)>>

\* the empty element, which the program sees as ''
EmptyElement == XNode(<<>>, NoAttrs, NoKids)

\* the children of an element from name / array pairs
KidsOf(pairs) ==
    [k \in { p[1] : p \in pairs } |-> (CHOOSE p \in pairs : p[1] = k)[2]]

\* the pair of an element name and its array when the element is present
Present(key, array) == IF IsDefined(array) THEN {<<key, Val(array)>>} ELSE {}

TextFoo == <<"F","o","o">>
TextBar == <<"B","a","r">>
TextBaz == <<"B","a","z">>
TextQux == <<"Q","u","x">>
TextNet6 == <<"n","e","t","6",".","0">>
TextNet8 == <<"n","e","t","8",".","0">>
TextTrue == <<"t","r","u","e">>
TextRange == <<"[","1",".","0",".","0",",","2",".","0",".","0",")">>
TextVersion == <<"1",".","2",".","3">>

\* dependency elements: id and version, id only, id with exclude, none
DepBar == XNode(<<>>, ("id" :> TextBar) @@ ("version" :> TextRange), NoKids)
DepBaz == XNode(<<>>, ("id" :> TextBaz), NoKids)
DepQux == XNode(<<>>, ("id" :> TextQux) @@ ("exclude" :> <<"B","u","i","l","d">>), NoKids)

\* a group element with the given attributes and dependency children
GroupElement(attrs, deps) ==
    XNode(<<>>, attrs, IF deps = <<>> THEN NoKids ELSE ("dependency" :> deps))

\* the dependencies element with the given children
DepsElement(kids) == Def(<<XNode(<<>>, NoAttrs, kids)>>)

\* the dependencies elements tried, each with the number of dependency
\* elements below it
DependenciesVariants ==
    { Undefined,
      Def(<<EmptyElement>>),
      DepsElement("group" :>
          << GroupElement("targetFramework" :> TextNet6, <<DepBar>>),
             GroupElement("targetFramework" :> TextNet8, <<DepBaz, DepQux>>) >>),
      DepsElement("dependency" :> <<DepBar, DepBaz>>),
      DepsElement(("group" :>
                      <<GroupElement("targetFramework" :> TextNet6, <<DepBar>>)>>)
                  @@ ("dependency" :> <<DepBaz>>)),
      DepsElement("group" :> <<GroupElement("x" :> TextFoo, <<DepBar>>)>>),
      DepsElement("group" :>
          << GroupElement("targetFramework" :> TextNet6, <<>>),
             GroupElement("targetFramework" :> TextNet8, <<DepQux>>) >>),
      DepsElement("group" :> <<GroupElement(NoAttrs, <<DepBar>>)>>),
      DepsElement("group" :> <<EmptyElement>>),
      DepsElement("dependency" :> <<DepBar, EmptyElement>>),
      DepsElement("group" :>
          <<GroupElement("targetFramework" :> TextNet6, <<EmptyElement>>)>>) }

\* the packageTypes elements tried
PackageTypesVariants ==
    { Undefined,
      Def(<<EmptyElement>>),
      Def(<<XNode(<<>>, NoAttrs, "packageType" :>
              << XNode(<<>>, ("name" :> <<"M","c","p","S","e","r","v","e","r">>) @@ ("version" :> TextVersion), NoKids),
                 XNode(<<>>, ("name" :> <<"D","o","t","n","e","t","T","o","o","l">>), NoKids) >>)>>),
      Def(<<XNode(<<>>, NoAttrs, "packageType" :>
              << XNode(<<>>, ("version" :> TextVersion), NoKids) >>)>>),
      Def(<<XNode(<<>>, NoAttrs, "packageType" :> <<EmptyElement>>)>>) }

\* the repository elements tried
RepositoryVariants ==
    { Undefined,
      Def(<<XNode(<<>>, ("url" :> <<"u">>) @@ ("type" :> <<"g","i","t">>), NoKids)>>),
      Def(<<XNode(<<>>, ("type" :> <<"g","i","t">>), NoKids)>>),
      Def(<<EmptyElement>>) }

\* the license elements tried
LicenseVariants ==
    { Undefined,
      Def(<<XNode(<<"M","I","T">>, ("type" :> <<"e","x","p","r","e","s","s","i","o","n">>), NoKids)>>),
      Def(TextElement(<<"M","I","T">>)),
      Def(<<EmptyElement>>) }

\* the scalar text elements tried: absent, text, empty, text beside an
\* attribute, an attribute and no text
ScalarVariants ==
    { Undefined, Def(TextElement(TextFoo)), Def(<<EmptyElement>>),
      Def(<<XNode(TextFoo, ("x" :> TextBar), NoKids)>>),
      Def(<<XNode(<<>>, ("x" :> TextBar), NoKids)>>) }

\* the list text elements tried
ListVariants ==
    { Undefined, Def(<<EmptyElement>>), Def(TextElement(TextFoo)),
      Def(TextElement(<<"a",","," ","b">>)), Def(TextElement(<<" ","a"," ",",",",","b"," ","c",","," ">>)),
      Def(TextElement(<<",">>)) }

\* the flag elements tried
FlagVariants ==
    { Undefined, Def(<<EmptyElement>>), Def(TextElement(TextTrue)),
      Def(TextElement(<<"T","r","u","e">>)), Def(TextElement(<<" ","t","r","u","e"," ">>)),
      Def(TextElement(<<"m","a","y","b","e">>)), Def(TextElement(<<"f","a","l","s","e">>)),
      Def(<<XNode(TextTrue, ("x" :> TextBar), NoKids)>>) }

\* a well-formed manifest with root package and the given metadata children
ManifestOf(pairs) ==
    [wellFormed |-> TRUE, root |-> "package",
     element |-> XNode(<<>>, NoAttrs,
                       "metadata" :> <<XNode(<<>>, NoAttrs, KidsOf(pairs))>>)]

(***************************************************************************)
(* xml2js.  The library is outside the repository: its answer on the       *)
(* manifest texts the archives hold is tabulated.  "<a/>" stands for a     *)
(* manifest with a package root, a metadata element and id "a"; "<b/>" is  *)
(* well-formed XML with another root; "<a" is not well-formed.             *)
(***************************************************************************)
TextGood == <<"<", "a", "/", ">">>
TextOtherRoot == <<"<", "b", "/", ">">>
TextMalformed == <<"<", "a">>

\* "<i/>" stands for the manifest of package Foo 1.2.3 with one ungrouped
\* dependency on Bar [1.0.0,2.0.0)
TextFooManifest == <<"<", "i", "/", ">">>

FooManifest ==
    ManifestOf(Present("id", Def(TextElement(TextFoo)))
               \cup Present("version", Def(TextElement(TextVersion)))
               \cup Present("dependencies", DepsElement("dependency" :> <<DepBar>>)))

\* parser.parseStringPromise(text): [ok, result]; result.package is the
\* root element when the root is named package
parseStringPromise(text) ==
    IF text = TextGood
    THEN [ok |-> TRUE,
          result |-> [package |-> Def([metadata |->
                         Def(<<[id |-> Def(<<"a">>), version |-> Undefined]>>)])]]
    ELSE IF text = TextOtherRoot
    THEN [ok |-> TRUE, result |-> [package |-> Undefined]]
    ELSE [ok |-> FALSE, result |-> [package |-> Undefined]]

\* getText(node) || '' for the two mandatory elements
getTextOrEmpty(node) == IF IsDefined(node) THEN Val(node) ELSE <<>>

\* parseNuspec: [ok, value]; it throws (ok = FALSE) when the XML is not
\* well-formed and when result.package or pkg.metadata is undefined.  The
\* manifest of package Foo is decoded in full, the other texts to their id
\* and version
parseNuspec(nuspecContentText) ==
    LET parsed == parseStringPromise(nuspecContentText)
        pkg == parsed.result.package
    IN  IF nuspecContentText = TextFooManifest THEN parseNuspecDoc(FooManifest)
        ELSE IF ~parsed.ok \/ ~IsDefined(pkg) \/ ~IsDefined(Val(pkg).metadata)
        THEN [ok |-> FALSE, value |-> Undefined]
        ELSE LET md == Val(Val(pkg).metadata)[1]
             IN  [ok |-> TRUE,
                  value |-> Def([id |-> getTextOrEmpty(md.id),
                                 version |-> getTextOrEmpty(md.version)])]

(***************************************************************************)
(* Archives.  An entry of the central directory has its fileName and       *)
(* uncompressedSize, and what the archive reader does with it:             *)
(*   open = "err"   openReadStream calls back with an error                *)
(*   data           the chunks the stream delivers                         *)
(*   read = "error" the stream emits 'error' after these chunks instead    *)
(*                  of 'end' (corrupt compressed data)                     *)
(***************************************************************************)
Entry(fileName, size, open, read, data) ==
    [fileName |-> fileName, uncompressedSize |-> size,
     open |-> open, read |-> read, data |-> data]

PathFooNuspec == <<"F","o","o">> \o DotNuspec
PathReadmeNuspec == <<"r","e","a","d","m","e">> \o DotNuspec
PathIconPng == <<"i","c","o","n",".","p","n","g">>
PathIconsReadmePng ==
    <<"i","c","o","n","s","/","r","e","a","d","m","e",".","p","n","g">>
PathReadmeMd == <<"R","E","A","D","M","E",".","m","d">>
PathLicense == <<"L","I","C","E","N","S","E">>
PathLibDll == <<"l","i","b","/","F","o","o",".","d","l","l">>
PathLib == <<"l","i","b","/">>

BytesGood == << <<60, 97>>, <<47, 62>> >>
BytesOtherRoot == << <<60, 98, 47, 62>> >>
BytesMalformed == << <<60, 97>> >>
BytesHi == << <<104, 105>> >>
BytesBinary == << <<137, 105>> >>

ManifestEntries ==
    { Entry(PathFooNuspec, 4, "ok", "end", BytesGood),
      Entry(PathFooNuspec, 4, "ok", "end", BytesOtherRoot),
      Entry(PathFooNuspec, 2, "ok", "end", BytesMalformed),
      Entry(PathFooNuspec, 4, "err", "end", <<>>),
      Entry(PathFooNuspec, 4, "ok", "error", BytesMalformed),
      Entry(PathReadmeNuspec, 4, "ok", "end", BytesGood) }

\* an entry read to its end and one whose stream cannot be opened
ContentEntries(fileName, data) ==
    { Entry(fileName, 2, "ok", "end", data),
      Entry(fileName, 2, "err", "end", <<>>) }

\* an entry whose stream fails while it is read
CorruptEntry(fileName) == Entry(fileName, 2, "ok", "error", <<>>)

PlainEntries ==
    { Entry(PathLibDll, 500, "ok", "end", BytesBinary),
      Entry(PathLib, 0, "ok", "end", <<>>) }

ArchiveEntries ==
    ManifestEntries
    \cup { Entry(PathIconPng, 2, "ok", "end", BytesBinary),
            CorruptEntry(PathIconPng),
            Entry(PathIconsReadmePng, 2, "ok", "end", BytesBinary) }
    \cup ContentEntries(PathReadmeMd, BytesHi)
    \cup { CorruptEntry(PathReadmeMd) }
    \cup ContentEntries(PathLicense, BytesHi)
    \cup ContentEntries(McpServerPath, BytesHi)
    \cup PlainEntries

Archives == UNION { [1..n -> ArchiveEntries] : n \in 0..MaxEntries }

(***************************************************************************)
(* State.  The calls run as callbacks of the event loop: what a call has   *)
(* asked of the archive reader and not yet been answered is state          *)
(* (readPending, opening, streams, decoding).                              *)
(***************************************************************************)
VARIABLES
    archive,          \* the central directory of the package file
    \* ---- one parsePackage call
    pc,               \* "idle", "start", "scanning", "done"
    zipfile,          \* the archive handle: "none", "open", "closed"
    entriesRead,      \* the entry cursor: entries delivered so far
    readPending,      \* readEntry() was called and not answered yet
    opening,          \* entries with an openReadStream call not answered yet
    streams,          \* open streams: [entry, class, chunks]
    decoding,         \* parseNuspec calls awaited: [entry, text]
    files, nuspecContent, iconData, metadata,
    readmeContent, readmePath, licenseContent, licensePath,
    mcpServerContent, mcpServerPath,
    outcome,          \* the promise: "pending", "resolved", "rejected"
    error,            \* the rejection reason, "none" before
    result,           \* the PackageContent the promise resolved with
    openCalls,        \* history: <<entry index, branch>> per openReadStream
    closeCalls,       \* history: number of zipfile.close() calls
    \* ---- one getFileContent call
    filePath,         \* the requested entry path
    getPc,            \* "idle", "start", "scanning", "done"
    getZipfile,       \* the call's own archive handle
    getEntriesRead,   \* its entry cursor
    getReadPending, getOpening, getStreams,
    getOutcome, getError, getResult,
    getCloseCalls,
    \* ---- one file name put through the classification helpers
    name,             \* the file name
    namePc,           \* "idle", "new", "classified"
    matches,          \* the predicates that hold of it
    branch,           \* the branch the chain of parsePackage takes for it
    \* ---- one flat list put through buildFileTree
    treeInput,        \* the flat list of PackageFile records
    treePc,           \* "idle", "new", "built"
    treeHeap,         \* the objects and the tree after the call
    \* ---- the caller of parsePackage
    token,            \* its cancellation token: "none", "requested"
    previous,         \* how its earlier call on the archive ended
    \* ---- one decoded manifest put through parseNuspec
    nuspecDoc,        \* what xml2js made of the manifest text
    nuspecPc,         \* "idle", "new", "parsed"
    nuspecOut,        \* the metadata returned, or the failure
    \* ---- one path put through getMimeType
    mimePath,         \* the requested path
    mimePc,           \* "idle", "new", "inferred"
    mimeType,         \* the type inferred for it
    \* ---- the logging functions of the extension
    logLevel,         \* the configured nupkg-viewer.logLevel, if any
    logCalls,         \* the logging functions called, oldest first
    channel,          \* what the output channel received, oldest first
    \* ---- one descriptor put through generateMcpStartupConfig
    serverConfig,     \* the parsed .mcp/server.json
    mcpPc,            \* "idle", "new", "generated"
    startupConfig,    \* the configuration generated from it
    \* ---- one custom editor of the provider
    editorPc,         \* "idle", "new", "parsing", "ready", "failed"
    html,             \* webview.html: "none", "loading", "package", "error"
    surfaces,         \* every value webview.html was given, oldest first
    handlerRegistered,\* onDidReceiveMessage holds the provider's handler
    inflight,         \* openFile requests whose getFileContent is pending
    answered,         \* how each finished request ended, oldest first
    posted,           \* what webview.postMessage was given, oldest first
    \* ---- the documents and subscriptions the provider keeps track of
    provider,         \* "idle", "active", "disposed"
    documents,        \* per URI: "none", "open", "disposed"
    panels,           \* per URI, its webview panel: "none", "open", "disposed"
    resolving,        \* per URI, resolveCustomEditor: "none", "parsing",
                      \* "ready", "failed", "threw"
    activeDocuments,  \* the map: URI to the disposables tracked for it
    registered,       \* the subscriptions made, as <<URI, kind>>
    disposed,         \* the subscriptions whose dispose() was called
    \* ---- one LogMemory
    maxLogs,          \* its capacity
    logs,             \* its buffer, oldest first
    sinceClear        \* every message added since the last clear, oldest first

captured == <<nuspecContent, iconData, metadata, readmeContent, readmePath,
              licenseContent, licensePath, mcpServerContent, mcpServerPath>>
settled == <<outcome, error, result>>
pending == <<readPending, opening, streams, decoding>>
parseVars == <<pc, zipfile, entriesRead, pending, files, captured, settled,
               openCalls, closeCalls>>
getPending == <<getReadPending, getOpening, getStreams>>
getSettled == <<getOutcome, getError, getResult>>
getVars == <<filePath, getPc, getZipfile, getEntriesRead, getPending,
             getSettled, getCloseCalls>>
nameVars == <<name, namePc, matches, branch>>
treeVars == <<treeInput, treePc, treeHeap>>
callerVars == <<token, previous>>
docVars == <<nuspecDoc, nuspecPc, nuspecOut>>
mimeVars == <<mimePath, mimePc, mimeType>>
logVars == <<logLevel, logCalls, channel>>
mcpVars == <<serverConfig, mcpPc, startupConfig>>
editorVars == <<editorPc, html, surfaces, handlerRegistered, inflight,
                answered, posted>>
lifeVars == <<provider, documents, panels, resolving, activeDocuments,
              registered, disposed>>
memVars == <<maxLogs, logs, sinceClear>>
otherVars == <<docVars, mimeVars, logVars, mcpVars, editorVars, lifeVars,
               memVars>>
vars == <<archive, parseVars, getVars, nameVars, treeVars, callerVars,
          otherVars>>

\* the stream record with one more chunk buffered
WithChunk(s, chunk) ==
    [entry |-> s.entry, class |-> s.class, chunks |-> Append(s.chunks, chunk)]

(***************************************************************************)
(* parsePackage                                                            *)
(***************************************************************************)
InitParse ==
    /\ pc = "start"
    /\ zipfile = "none"
    /\ entriesRead = 0
    /\ readPending = FALSE
    /\ opening = {} /\ streams = {} /\ decoding = {}
    /\ files = <<>>
    /\ nuspecContent = Undefined /\ iconData = Undefined
    /\ metadata = Undefined
    /\ readmeContent = Undefined /\ readmePath = Undefined
    /\ licenseContent = Undefined /\ licensePath = Undefined
    /\ mcpServerContent = Undefined /\ mcpServerPath = Undefined
    /\ outcome = "pending" /\ error = "none" /\ result = Undefined
    /\ openCalls = <<>>
    /\ closeCalls = 0

\* zipfile.close()
Close ==
    /\ zipfile' = "closed"
    /\ closeCalls' = closeCalls + 1

\* reject(err)
Reject(err) ==
    /\ outcome' = (IF outcome = "pending" THEN "rejected" ELSE outcome)
    /\ error' = (IF outcome = "pending" THEN err ELSE error)
    /\ result' = result

\* resolve(value)
Resolve(value) ==
    /\ outcome' = (IF outcome = "pending" THEN "resolved" ELSE outcome)
    /\ result' = (IF outcome = "pending" THEN Def(value) ELSE result)
    /\ error' = error

\* yauzl.open calls back with an error: the file is unreadable or no ZIP
OpenFailed ==
    /\ pc = "start"
    /\ Reject("ArchiveOpenError")
    /\ pc' = "done"
    /\ UNCHANGED <<archive, getVars, nameVars, treeVars, callerVars, otherVars, zipfile, entriesRead, pending,
                   files, captured, openCalls, closeCalls>>

\* yauzl.open calls back with the handle: the locals are set up, the first
\* readEntry is issued and the handlers are registered
Opened ==
    /\ pc = "start"
    /\ zipfile' = "open"
    /\ readPending' = TRUE
    /\ pc' = "scanning"
    /\ UNCHANGED <<archive, getVars, nameVars, treeVars, callerVars, otherVars, entriesRead, opening, streams,
                   decoding, files, captured, settled, openCalls, closeCalls>>

\* a plausible slip: the name is the whole path
PackageFileOfFullName(entry) ==
    [path |-> entry.fileName,
     name |-> entry.fileName,
     size |-> entry.uncompressedSize,
     isDirectory |-> endsWith(entry.fileName, <<"/">>)]

\* the PackageFile recorded for an entry
PackageFileOf(entry) ==
    [path |-> entry.fileName,
     name |-> basename(entry.fileName),
     size |-> entry.uncompressedSize,
     isDirectory |-> endsWith(entry.fileName, <<"/">>)]

\* a plausible slip: the readme test comes before the manifest test
BranchOfReadmeFirst(fileName) ==
    IF isReadmeFile(fileName) THEN "readme"
    ELSE IF isNuspecFile(fileName) THEN "nuspec"
    ELSE IF isIconFile(fileName) THEN "icon"
    ELSE IF isLicenseFile(fileName) THEN "license"
    ELSE IF isMcpServerFile(fileName) THEN "mcp"
    ELSE "none"

\* the branch of the if / else-if chain an entry takes
BranchOf(fileName) ==
    IF isNuspecFile(fileName) THEN "nuspec"
    ELSE IF isIconFile(fileName) THEN "icon"
    ELSE IF isReadmeFile(fileName) THEN "readme"
    ELSE IF isLicenseFile(fileName) THEN "license"
    ELSE IF isMcpServerFile(fileName) THEN "mcp"
    ELSE "none"

\* the 'entry' handler: the reader answers the pending readEntry with the
\* next entry
OnEntry ==
    /\ readPending
    /\ zipfile = "open"
    /\ entriesRead < Len(archive)
    /\ LET entry == archive[entriesRead + 1]
           fileName == entry.fileName
           taken == BranchOf(fileName)
       IN  /\ entriesRead' = entriesRead + 1
           /\ files' = Append(files, PackageFileOf(entry))
           /\ readmePath' = (IF taken = "readme" THEN Def(fileName)
                             ELSE readmePath)
           /\ licensePath' = (IF taken = "license" THEN Def(fileName)
                              ELSE licensePath)
           /\ mcpServerPath' = (IF taken = "mcp" THEN Def(fileName)
                                ELSE mcpServerPath)
           /\ IF taken = "none"
              THEN \* zipfile.readEntry()
                   /\ readPending' = TRUE
                   /\ UNCHANGED <<opening, openCalls>>
              ELSE \* zipfile.openReadStream(entry, callback)
                   /\ readPending' = FALSE
                   /\ opening' = opening \cup {entriesRead + 1}
                   /\ openCalls' = Append(openCalls, <<entriesRead + 1, taken>>)
    /\ UNCHANGED <<archive, getVars, nameVars, treeVars, callerVars, otherVars, pc, zipfile, streams, decoding,
                   nuspecContent, iconData, metadata, readmeContent,
                   licenseContent, mcpServerContent, settled, closeCalls>>

\* the openReadStream callback with an error: logged, next entry
OnOpenStreamError ==
    \E i \in opening :
        /\ archive[i].open = "err"
        /\ opening' = opening \ {i}
        /\ readPending' = TRUE
        /\ UNCHANGED <<archive, getVars, nameVars, treeVars, callerVars, otherVars, pc, zipfile, entriesRead,
                       streams, decoding, files, captured, settled, openCalls,
                       closeCalls>>

\* a plausible slip: the cursor is advanced as soon as the stream is open
OnOpenStreamEager ==
    \E i \in opening :
        /\ archive[i].open = "ok"
        /\ opening' = opening \ {i}
        /\ streams' = streams \cup
               {[entry |-> i, class |-> BranchOf(archive[i].fileName),
                 chunks |-> <<>>]}
        /\ readPending' = TRUE
        /\ UNCHANGED <<archive, getVars, nameVars, treeVars, callerVars, otherVars, pc, zipfile, entriesRead,
                       decoding, files, captured, settled, openCalls,
                       closeCalls>>

\* the openReadStream callback with a stream: chunks = [], handlers on
OnOpenStream ==
    \E i \in opening :
        /\ archive[i].open = "ok"
        /\ opening' = opening \ {i}
        /\ streams' = streams \cup
               {[entry |-> i, class |-> BranchOf(archive[i].fileName),
                 chunks |-> <<>>]}
        /\ UNCHANGED <<archive, getVars, nameVars, treeVars, callerVars, otherVars, pc, zipfile, entriesRead,
                       readPending, decoding, files, captured, settled,
                       openCalls, closeCalls>>

\* the stream's 'data' handler
OnData ==
    \E s \in streams :
        /\ Len(s.chunks) < Len(archive[s.entry].data)
        /\ streams' = (streams \ {s}) \cup
               {WithChunk(s, archive[s.entry].data[Len(s.chunks) + 1])}
        /\ UNCHANGED <<archive, getVars, nameVars, treeVars, callerVars, otherVars, pc, zipfile, entriesRead,
                       readPending, opening, decoding, files, captured,
                       settled, openCalls, closeCalls>>

\* the stream s has delivered all its chunks and ends
StreamEnds(s) ==
    /\ Len(s.chunks) = Len(archive[s.entry].data)
    /\ archive[s.entry].read = "end"

\* the stream s has delivered its chunks and fails
StreamFails(s) ==
    /\ Len(s.chunks) = Len(archive[s.entry].data)
    /\ archive[s.entry].read = "error"

\* a plausible slip: the manifest text is decoded but not kept
OnNuspecEndNoContent ==
    \E s \in streams :
        /\ s.class = "nuspec"
        /\ StreamEnds(s)
        /\ LET text == toStringUtf8(BufferConcat(s.chunks))
           IN  /\ nuspecContent' = nuspecContent
               /\ decoding' = decoding \cup {[entry |-> s.entry, text |-> text]}
        /\ streams' = streams \ {s}
        /\ UNCHANGED <<archive, getVars, nameVars, treeVars, callerVars, otherVars, pc, zipfile, entriesRead,
                       readPending, opening, files, iconData, metadata,
                       readmeContent, readmePath, licenseContent, licensePath,
                       mcpServerContent, mcpServerPath, settled, openCalls,
                       closeCalls>>

\* the 'end' handler of the manifest stream up to its await
OnNuspecEnd ==
    \E s \in streams :
        /\ s.class = "nuspec"
        /\ StreamEnds(s)
        /\ LET text == toStringUtf8(BufferConcat(s.chunks))
           IN  /\ nuspecContent' = Def(text)
               /\ decoding' = decoding \cup {[entry |-> s.entry, text |-> text]}
        /\ streams' = streams \ {s}
        /\ UNCHANGED <<archive, getVars, nameVars, treeVars, callerVars, otherVars, pc, zipfile, entriesRead,
                       readPending, opening, files, iconData, metadata,
                       readmeContent, readmePath, licenseContent, licensePath,
                       mcpServerContent, mcpServerPath, settled, openCalls,
                       closeCalls>>

\* a plausible slip: the catch branch resets metadata
MetadataAfterReset(parsed) ==
    IF parsed.ok THEN parsed.value ELSE Undefined

\* metadata after try { metadata = await parseNuspec(..) } catch { log }
MetadataAfter(parsed) ==
    IF parsed.ok THEN parsed.value ELSE metadata

\* the rest of that handler: parseNuspec settled, try / catch, next entry
OnNuspecParsed ==
    \E d \in decoding :
        /\ metadata' = MetadataAfter(parseNuspec(d.text))
        /\ decoding' = decoding \ {d}
        /\ readPending' = TRUE
        /\ UNCHANGED <<archive, getVars, nameVars, treeVars, callerVars, otherVars, pc, zipfile, entriesRead,
                       opening, streams, files, nuspecContent, iconData,
                       readmeContent, readmePath, licenseContent, licensePath,
                       mcpServerContent, mcpServerPath, settled, openCalls,
                       closeCalls>>

\* the 'end' handler of an icon, readme, license or MCP stream
\* a plausible slip: a capture already made for the class is kept
OnContentEndKeepFirst ==
    \E s \in streams :
        /\ s.class \in {"icon", "readme", "license", "mcp"}
        /\ StreamEnds(s)
        /\ LET buf == BufferConcat(s.chunks)
           IN  /\ iconData' = (IF s.class = "icon" /\ ~IsDefined(iconData)
                               THEN Def(buf) ELSE iconData)
               /\ readmeContent' = (IF s.class = "readme" /\ ~IsDefined(readmeContent)
                                    THEN Def(toStringUtf8(buf))
                                    ELSE readmeContent)
               /\ licenseContent' = (IF s.class = "license" /\ ~IsDefined(licenseContent)
                                     THEN Def(toStringUtf8(buf))
                                     ELSE licenseContent)
               /\ mcpServerContent' = (IF s.class = "mcp" /\ ~IsDefined(mcpServerContent)
                                       THEN Def(toStringUtf8(buf))
                                       ELSE mcpServerContent)
        /\ streams' = streams \ {s}
        /\ readPending' = TRUE
        /\ UNCHANGED <<archive, getVars, nameVars, treeVars, callerVars, otherVars, pc, zipfile, entriesRead,
                       opening, decoding, files, nuspecContent, metadata,
                       readmePath, licensePath, mcpServerPath, settled,
                       openCalls, closeCalls>>

OnContentEnd ==
    \E s \in streams :
        /\ s.class \in {"icon", "readme", "license", "mcp"}
        /\ StreamEnds(s)
        /\ LET buf == BufferConcat(s.chunks)
           IN  /\ iconData' = (IF s.class = "icon" THEN Def(buf) ELSE iconData)
               /\ readmeContent' = (IF s.class = "readme"
                                    THEN Def(toStringUtf8(buf))
                                    ELSE readmeContent)
               /\ licenseContent' = (IF s.class = "license"
                                     THEN Def(toStringUtf8(buf))
                                     ELSE licenseContent)
               /\ mcpServerContent' = (IF s.class = "mcp"
                                       THEN Def(toStringUtf8(buf))
                                       ELSE mcpServerContent)
        /\ streams' = streams \ {s}
        /\ readPending' = TRUE
        /\ UNCHANGED <<archive, getVars, nameVars, treeVars, callerVars, otherVars, pc, zipfile, entriesRead,
                       opening, decoding, files, nuspecContent, metadata,
                       readmePath, licensePath, mcpServerPath, settled,
                       openCalls, closeCalls>>

\* the stream emits 'error': parsePackage registered no 'error' listener on
\* its streams, so no handler of the call runs and the call has nothing
\* scheduled any more
OnStreamError ==
    \E s \in streams :
        /\ StreamFails(s)
        /\ streams' = streams \ {s}
        /\ UNCHANGED <<archive, getVars, nameVars, treeVars, callerVars, otherVars, pc, zipfile, entriesRead,
                       readPending, opening, decoding, files, captured,
                       settled, openCalls, closeCalls>>

\* the PackageContent assembled in the 'end' handler
PackageContentOf(fileTree) ==
    [metadata |-> metadata, files |-> fileTree,
     nuspecContent |-> nuspecContent, iconData |-> iconData,
     readmeContent |-> readmeContent, readmePath |-> readmePath,
     licenseContent |-> licenseContent, licensePath |-> licensePath,
     mcpServerContent |-> mcpServerContent, mcpServerPath |-> mcpServerPath]

\* a plausible slip: the 'end' handler never takes its !metadata branch
MetadataMissingNever == FALSE

\* !metadata in the 'end' handler
MetadataMissing == ~IsDefined(metadata)

\* the 'end' handler of the archive: the reader answers the pending
\* readEntry after the last entry
OnEnd ==
    /\ readPending
    /\ zipfile = "open"
    /\ entriesRead = Len(archive)
    /\ IF MetadataMissing
       THEN /\ Close
            /\ Reject("MissingMetadataError")
            /\ files' = files
       ELSE LET heap == buildFileTree(files)
            IN  /\ files' = SubSeq(heap.nodes, 1, Len(files))
                /\ Close
                /\ Resolve(PackageContentOf([nodes |-> heap.nodes,
                                             tree |-> heap.tree]))
    /\ readPending' = FALSE
    /\ pc' = "done"
    /\ UNCHANGED <<archive, getVars, nameVars, treeVars, callerVars, otherVars, entriesRead, opening, streams,
                   decoding, captured, openCalls>>

\* the 'error' handler of the archive: the reader fails on the next
\* central-directory record
OnError ==
    /\ readPending
    /\ zipfile = "open"
    /\ entriesRead < Len(archive)
    /\ Close
    /\ Reject("ReaderError")
    /\ readPending' = FALSE
    /\ pc' = "done"
    /\ UNCHANGED <<archive, getVars, nameVars, treeVars, callerVars, otherVars, entriesRead, opening, streams,
                   decoding, files, captured, openCalls>>

\* nothing is scheduled for the call and its promise is still pending
Stalled ==
    /\ pc = "scanning"
    /\ ~readPending
    /\ opening = {} /\ streams = {} /\ decoding = {}

(***************************************************************************)
(* getFileContent                                                          *)
(***************************************************************************)
Ext(chars) == <<".">> \o chars

\* the table of getMimeType, extension to type
mimeTypes ==
    { <<Ext(<<"t","x","t">>), "text/plain">>,
      <<Ext(<<"m","d">>), "text/markdown">>,
      <<Ext(<<"j","s","o","n">>), "application/json">>,
      <<Ext(<<"x","m","l">>), "application/xml">>,
      <<Ext(<<"y","m","l">>), "text/yaml">>,
      <<Ext(<<"y","a","m","l">>), "text/yaml">>,
      <<Ext(<<"c","s">>), "text/x-csharp">>,
      <<Ext(<<"j","s">>), "text/javascript">>,
      <<Ext(<<"t","s">>), "text/typescript">>,
      <<Ext(<<"h","t","m","l">>), "text/html">>,
      <<Ext(<<"c","s","s">>), "text/css">>,
      <<Ext(<<"p","n","g">>), "image/png">>,
      <<Ext(<<"j","p","g">>), "image/jpeg">>,
      <<Ext(<<"j","p","e","g">>), "image/jpeg">>,
      <<Ext(<<"g","i","f">>), "image/gif">>,
      <<Ext(<<"i","c","o">>), "image/x-icon">>,
      <<Ext(<<"s","v","g">>), "image/svg+xml">> }

\* a plausible slip: the extension is looked up as written
getMimeTypeCaseSensitive(path) ==
    LET ext == extname(path)
    IN  IF \E row \in mimeTypes : row[1] = ext
        THEN (CHOOSE row \in mimeTypes : row[1] = ext)[2]
        ELSE "application/octet-stream"

getMimeType(path) ==
    LET ext == toLowerCase(extname(path))
    IN  IF \E row \in mimeTypes : row[1] = ext
        THEN (CHOOSE row \in mimeTypes : row[1] = ext)[2]
        ELSE "application/octet-stream"

InitGet ==
    /\ getPc = "start"
    /\ getZipfile = "none"
    /\ getEntriesRead = 0
    /\ getReadPending = FALSE
    /\ getOpening = {} /\ getStreams = {}
    /\ getOutcome = "pending" /\ getError = "none" /\ getResult = Undefined
    /\ getCloseCalls = 0

\* zipfile.close()
GetClose ==
    /\ getZipfile' = "closed"
    /\ getCloseCalls' = getCloseCalls + 1

\* reject(err)
GetReject(err) ==
    /\ getOutcome' = (IF getOutcome = "pending" THEN "rejected" ELSE getOutcome)
    /\ getError' = (IF getOutcome = "pending" THEN err ELSE getError)
    /\ getResult' = getResult

\* resolve(value)
GetResolve(value) ==
    /\ getOutcome' = (IF getOutcome = "pending" THEN "resolved" ELSE getOutcome)
    /\ getResult' = (IF getOutcome = "pending" THEN Def(value) ELSE getResult)
    /\ getError' = getError

\* yauzl.open calls back with an error
GetOpenFailed ==
    /\ getPc = "start"
    /\ GetReject("ArchiveOpenError")
    /\ getPc' = "done"
    /\ UNCHANGED <<archive, parseVars, nameVars, treeVars, callerVars, otherVars, filePath, getZipfile,
                   getEntriesRead, getPending, getCloseCalls>>

\* yauzl.open calls back with the handle: first readEntry, handlers on
GetOpened ==
    /\ getPc = "start"
    /\ getZipfile' = "open"
    /\ getReadPending' = TRUE
    /\ getPc' = "scanning"
    /\ UNCHANGED <<archive, parseVars, nameVars, treeVars, callerVars, otherVars, filePath, getEntriesRead,
                   getOpening, getStreams, getSettled, getCloseCalls>>

\* a plausible slip: the return after openReadStream is missing, so the
\* handler goes on to zipfile.readEntry() after a match
GetOnEntryReadsOn ==
    /\ getReadPending
    /\ getZipfile = "open"
    /\ getEntriesRead < Len(archive)
    /\ getEntriesRead' = getEntriesRead + 1
    /\ getOpening' = (IF archive[getEntriesRead + 1].fileName = filePath
                      THEN getOpening \cup {getEntriesRead + 1}
                      ELSE getOpening)
    /\ getReadPending' = TRUE
    /\ UNCHANGED <<archive, parseVars, nameVars, treeVars, callerVars, otherVars, filePath, getPc, getZipfile,
                   getStreams, getSettled, getCloseCalls>>

\* a plausible slip: the entry path is compared without regard to case
GetOnEntryIgnoreCase ==
    /\ getReadPending
    /\ getZipfile = "open"
    /\ getEntriesRead < Len(archive)
    /\ getEntriesRead' = getEntriesRead + 1
    /\ IF toLowerCase(archive[getEntriesRead + 1].fileName) = toLowerCase(filePath)
       THEN /\ getOpening' = getOpening \cup {getEntriesRead + 1}
            /\ getReadPending' = FALSE
       ELSE /\ getReadPending' = TRUE
            /\ getOpening' = getOpening
    /\ UNCHANGED <<archive, parseVars, nameVars, treeVars, callerVars, otherVars, filePath, getPc, getZipfile,
                   getStreams, getSettled, getCloseCalls>>

\* a plausible slip: the calls read one shared handle, so an entry handed
\* to this call is gone for the parsePackage call
GetOnEntryShared ==
    /\ getReadPending
    /\ getZipfile = "open"
    /\ getEntriesRead < Len(archive)
    /\ getEntriesRead' = getEntriesRead + 1
    /\ entriesRead' = (IF entriesRead < Len(archive) THEN entriesRead + 1
                       ELSE entriesRead)
    /\ IF archive[getEntriesRead + 1].fileName = filePath
       THEN /\ getOpening' = getOpening \cup {getEntriesRead + 1}
            /\ getReadPending' = FALSE
       ELSE /\ getReadPending' = TRUE
            /\ getOpening' = getOpening
    /\ UNCHANGED <<archive, nameVars, treeVars, callerVars, otherVars, filePath, getPc,
                   getZipfile, getStreams, getSettled, getCloseCalls,
                   pc, zipfile, pending, files, captured, settled, openCalls,
                   closeCalls>>

\* the 'entry' handler: entry.fileName === filePath opens the stream and
\* returns, any other entry moves the cursor on
GetOnEntry ==
    /\ getReadPending
    /\ getZipfile = "open"
    /\ getEntriesRead < Len(archive)
    /\ getEntriesRead' = getEntriesRead + 1
    /\ IF archive[getEntriesRead + 1].fileName = filePath
       THEN /\ getOpening' = getOpening \cup {getEntriesRead + 1}
            /\ getReadPending' = FALSE
       ELSE /\ getReadPending' = TRUE
            /\ getOpening' = getOpening
    /\ UNCHANGED <<archive, parseVars, nameVars, treeVars, callerVars, otherVars, filePath, getPc, getZipfile,
                   getStreams, getSettled, getCloseCalls>>

\* a plausible slip: the return after reject is missing, so the handler
\* falls through to zipfile.readEntry() on the handle it just closed
GetOnOpenStreamErrorReadsOn ==
    \E i \in getOpening :
        /\ archive[i].open = "err"
        /\ getOpening' = getOpening \ {i}
        /\ GetClose
        /\ GetReject("StreamError")
        /\ getReadPending' = TRUE
        /\ getPc' = "done"
        /\ UNCHANGED <<archive, parseVars, nameVars, treeVars, callerVars, otherVars, filePath, getEntriesRead,
                       getStreams>>

\* the openReadStream callback with an error
GetOnOpenStreamError ==
    \E i \in getOpening :
        /\ archive[i].open = "err"
        /\ getOpening' = getOpening \ {i}
        /\ GetClose
        /\ GetReject("StreamError")
        /\ getPc' = "done"
        /\ UNCHANGED <<archive, parseVars, nameVars, treeVars, callerVars, otherVars, filePath, getEntriesRead,
                       getReadPending, getStreams>>

\* the openReadStream callback with a stream
GetOnOpenStream ==
    \E i \in getOpening :
        /\ archive[i].open = "ok"
        /\ getOpening' = getOpening \ {i}
        /\ getStreams' = getStreams \cup
               {[entry |-> i, class |-> "target", chunks |-> <<>>]}
        /\ UNCHANGED <<archive, parseVars, nameVars, treeVars, callerVars, otherVars, filePath, getPc,
                       getZipfile, getEntriesRead, getReadPending, getSettled,
                       getCloseCalls>>

\* the stream's 'data' handler
GetOnData ==
    \E s \in getStreams :
        /\ Len(s.chunks) < Len(archive[s.entry].data)
        /\ getStreams' = (getStreams \ {s}) \cup
               {WithChunk(s, archive[s.entry].data[Len(s.chunks) + 1])}
        /\ UNCHANGED <<archive, parseVars, nameVars, treeVars, callerVars, otherVars, filePath, getPc,
                       getZipfile, getEntriesRead, getReadPending, getOpening,
                       getSettled, getCloseCalls>>

\* the stream's 'end' handler
GetOnStreamEnd ==
    \E s \in getStreams :
        /\ StreamEnds(s)
        /\ getStreams' = getStreams \ {s}
        /\ GetClose
        /\ GetResolve([path |-> filePath,
                       content |-> BufferConcat(s.chunks),
                       mimeType |-> getMimeType(filePath)])
        /\ getPc' = "done"
        /\ UNCHANGED <<archive, parseVars, nameVars, treeVars, callerVars, otherVars, filePath, getEntriesRead,
                       getReadPending, getOpening>>

\* a plausible slip: the 'error' handler hands back what was buffered
GetOnStreamErrorPartial ==
    \E s \in getStreams :
        /\ StreamFails(s)
        /\ getStreams' = getStreams \ {s}
        /\ GetClose
        /\ GetResolve([path |-> filePath,
                       content |-> BufferConcat(s.chunks),
                       mimeType |-> getMimeType(filePath)])
        /\ getPc' = "done"
        /\ UNCHANGED <<archive, parseVars, nameVars, treeVars, callerVars, otherVars, filePath, getEntriesRead,
                       getReadPending, getOpening>>

\* a plausible slip: the 'error' handler rejects and leaves the handle open
GetOnStreamErrorNoClose ==
    \E s \in getStreams :
        /\ StreamFails(s)
        /\ getStreams' = getStreams \ {s}
        /\ GetReject("StreamError")
        /\ getPc' = "done"
        /\ UNCHANGED <<archive, parseVars, nameVars, treeVars, callerVars, otherVars, filePath, getZipfile,
                       getEntriesRead, getReadPending, getOpening,
                       getCloseCalls>>

\* the stream's 'error' handler
GetOnStreamError ==
    \E s \in getStreams :
        /\ StreamFails(s)
        /\ getStreams' = getStreams \ {s}
        /\ GetClose
        /\ GetReject("StreamError")
        /\ getPc' = "done"
        /\ UNCHANGED <<archive, parseVars, nameVars, treeVars, callerVars, otherVars, filePath, getEntriesRead,
                       getReadPending, getOpening>>

\* the 'end' handler of the archive
GetOnEnd ==
    /\ getReadPending
    /\ getZipfile = "open"
    /\ getEntriesRead = Len(archive)
    /\ GetClose
    /\ GetReject("FileNotFoundError")
    /\ getReadPending' = FALSE
    /\ getPc' = "done"
    /\ UNCHANGED <<archive, parseVars, nameVars, treeVars, callerVars, otherVars, filePath, getEntriesRead,
                   getOpening, getStreams>>

\* nothing is scheduled for the call and its promise is still pending
GetStalled ==
    /\ getPc = "scanning"
    /\ ~getReadPending
    /\ getOpening = {} /\ getStreams = {}

\* the 'error' handler of the archive
GetOnError ==
    /\ getReadPending
    /\ getZipfile = "open"
    /\ getEntriesRead < Len(archive)
    /\ GetClose
    /\ GetReject("ReaderError")
    /\ getReadPending' = FALSE
    /\ getPc' = "done"
    /\ UNCHANGED <<archive, parseVars, nameVars, treeVars, callerVars, otherVars, filePath, getEntriesRead,
                   getOpening, getStreams>>

(***************************************************************************)
(* The classification helpers on single file names.                        *)
(***************************************************************************)
\* the predicates that hold of a file name
MatchesOf(fileName) ==
    { c \in {"nuspec", "icon", "readme", "license", "mcp"} :
        \/ c = "nuspec" /\ isNuspecFile(fileName)
        \/ c = "icon" /\ isIconFile(fileName)
        \/ c = "readme" /\ isReadmeFile(fileName)
        \/ c = "license" /\ isLicenseFile(fileName)
        \/ c = "mcp" /\ isMcpServerFile(fileName) }

ClassifyName ==
    /\ namePc = "new"
    /\ matches' = MatchesOf(name)
    /\ branch' = BranchOf(name)
    /\ namePc' = "classified"
    /\ UNCHANGED <<archive, parseVars, getVars, treeVars, callerVars, otherVars, name>>

(***************************************************************************)
(* Specifications.                                                         *)
(***************************************************************************)
IdleParse ==
    /\ pc = "idle"
    /\ zipfile = "none"
    /\ entriesRead = 0
    /\ readPending = FALSE
    /\ opening = {} /\ streams = {} /\ decoding = {}
    /\ files = <<>>
    /\ nuspecContent = Undefined /\ iconData = Undefined
    /\ metadata = Undefined
    /\ readmeContent = Undefined /\ readmePath = Undefined
    /\ licenseContent = Undefined /\ licensePath = Undefined
    /\ mcpServerContent = Undefined /\ mcpServerPath = Undefined
    /\ outcome = "pending" /\ error = "none" /\ result = Undefined
    /\ openCalls = <<>>
    /\ closeCalls = 0

IdleGet ==
    /\ filePath = <<>>
    /\ getPc = "idle"
    /\ getZipfile = "none"
    /\ getEntriesRead = 0
    /\ getReadPending = FALSE
    /\ getOpening = {} /\ getStreams = {}
    /\ getOutcome = "pending" /\ getError = "none" /\ getResult = Undefined
    /\ getCloseCalls = 0

IdleNames ==
    /\ name = <<>>
    /\ namePc = "idle"
    /\ matches = {}
    /\ branch = "none"

IdleTree ==
    /\ treeInput = <<>>
    /\ treePc = "idle"
    /\ treeHeap = Heap(<<>>, <<>>, <<>>)

IdleCaller ==
    /\ token = "none"
    /\ previous = Undefined

IdleDoc ==
    /\ nuspecDoc = Undefined
    /\ nuspecPc = "idle"
    /\ nuspecOut = Undefined

IdleMime ==
    /\ mimePath = <<>>
    /\ mimePc = "idle"
    /\ mimeType = "none"

IdleLog ==
    /\ logLevel = Undefined
    /\ logCalls = <<>>
    /\ channel = <<>>

IdleMcp ==
    /\ serverConfig = Undefined
    /\ mcpPc = "idle"
    /\ startupConfig = Undefined

IdleEditor ==
    /\ editorPc = "idle"
    /\ html = "none"
    /\ surfaces = <<>>
    /\ handlerRegistered = FALSE
    /\ inflight = {}
    /\ answered = <<>>
    /\ posted = <<>>

IdleLife ==
    /\ provider = "idle"
    /\ documents = <<>>
    /\ panels = <<>>
    /\ resolving = <<>>
    /\ activeDocuments = <<>>
    /\ registered = {}
    /\ disposed = {}

IdleMem ==
    /\ maxLogs = 0
    /\ logs = <<>>
    /\ sinceClear = <<>>

IdleHost == IdleLife /\ IdleMem

IdleOther ==
    /\ IdleDoc
    /\ IdleMime
    /\ IdleLog
    /\ IdleMcp
    /\ IdleEditor
    /\ IdleHost

\* one parsePackage call on any archive of the universe
Init ==
    /\ archive \in Archives
    /\ InitParse
    /\ IdleGet
    /\ IdleNames
    /\ IdleTree
    /\ IdleCaller
    /\ IdleOther

Next ==
    \/ OpenFailed
    \/ Opened
    \/ OnEntry
    \/ OnOpenStreamError
    \/ OnOpenStream
    \/ OnData
    \/ OnNuspecEnd
    \/ OnNuspecParsed
    \/ OnContentEnd
    \/ OnStreamError
    \/ OnEnd
    \/ OnError

Spec == Init /\ [][Next]_vars

\* one getFileContent call for any requested path on any archive
GetEntries ==
    { Entry(PathReadmeMd, 2, "ok", "end", BytesHi),
      Entry(PathReadmeMd, 2, "err", "end", <<>>),
      CorruptEntry(PathReadmeMd),
      Entry(PathFooNuspec, 4, "ok", "end", BytesGood),
      Entry(PathLibDll, 500, "ok", "end", BytesBinary),
      Entry(PathLib, 0, "ok", "end", <<>>) }

GetArchives == UNION { [1..n -> GetEntries] : n \in 0..MaxEntries }

RequestedPaths ==
    { PathReadmeMd, PathFooNuspec, PathLibDll, PathLib,
      toLowerCase(PathReadmeMd), <<"l","i","b">> }

InitGetSpec ==
    /\ archive \in GetArchives
    /\ filePath \in RequestedPaths
    /\ InitGet
    /\ IdleParse
    /\ IdleNames
    /\ IdleTree
    /\ IdleCaller
    /\ IdleOther

NextGet ==
    \/ GetOpenFailed
    \/ GetOpened
    \/ GetOnEntry
    \/ GetOnOpenStreamError
    \/ GetOnOpenStream
    \/ GetOnData
    \/ GetOnStreamEnd
    \/ GetOnStreamError
    \/ GetOnEnd
    \/ GetOnError

SpecGet == InitGetSpec /\ [][NextGet]_vars

\* every file name of a universe built from directories, stems and endings
NameDirs ==
    { <<>>, <<"f","o","o","/">>, <<"i","c","o","n","s","/">>,
      <<".","m","c","p","/">>, <<".","M","C","P","/">>, <<"l","i","b","/">> }

NameStems ==
    { <<"r","e","a","d","m","e">>, <<"R","E","A","D","M","E">>,
      <<"l","i","c","e","n","s","e">>, <<"L","I","C","E","N","S","E">>,
      <<"l","i","c","e","n","c","e">>, <<"c","o","p","y","i","n","g">>,
      <<"i","c","o","n">>, <<"s","e","r","v","e","r">>,
      <<"S","E","R","V","E","R">>, <<"F","o","o">>, <<>> }

NameEndings ==
    { <<>>, <<".">>, <<"/">>, Ext(<<"m","d">>), Ext(<<"t","x","t">>),
      Ext(<<"r","s","t">>), Ext(<<"p","n","g">>), Ext(<<"P","N","G">>),
      Ext(<<"i","c","o">>), Ext(<<"j","s","o","n">>), Ext(<<"J","S","O","N">>),
      Ext(<<"d","l","l">>), DotNuspec, Ext(<<"N","U","S","P","E","C">>),
      <<".","i","c","o","n",".","p","n","g">>,
      <<".","p","n","g",".","n","u","s","p","e","c">> }

FileNames == { d \o s \o e : d \in NameDirs, s \in NameStems, e \in NameEndings }

InitNames ==
    /\ archive = <<>>
    /\ name \in FileNames
    /\ namePc = "new"
    /\ matches = {}
    /\ branch = "none"
    /\ IdleParse
    /\ IdleGet
    /\ IdleTree
    /\ IdleCaller
    /\ IdleOther

NextNames == ClassifyName

SpecNames == InitNames /\ [][NextNames]_vars

\* one flat list of PackageFile records handed to buildFileTree
MaxTreeFiles == 3

PathNet == <<"l","i","b","/","n","e","t","6",".","0","/">>

TreePaths ==
    { PathFooNuspec, PathReadmeMd, PathLib, PathLibDll,
      PathNet, PathNet \o <<"F","o","o",".","d","l","l">>,
      <<"a","/","z">>, <<"A","/","b">>,
      <<"t","o","o","l","s","/","x">>, <<"l","i","b">> }

\* the records the 'entry' handler makes of such paths
TreeFiles ==
    { PackageFileOf(Entry(p, IF endsWith(p, <<"/">>) THEN 0 ELSE 5,
                          "ok", "end", <<>>)) : p \in TreePaths }

FlatLists == UNION { [1..n -> TreeFiles] : n \in 0..MaxTreeFiles }

InitTree ==
    /\ archive = <<>>
    /\ treeInput \in FlatLists
    /\ treePc = "new"
    /\ treeHeap = Heap(<<>>, <<>>, <<>>)
    /\ IdleCaller
    /\ IdleOther
    /\ IdleParse
    /\ IdleGet
    /\ IdleNames

\* the call buildFileTree(files)
BuildTree ==
    /\ treePc = "new"
    /\ treeHeap' = buildFileTree(treeInput)
    /\ treePc' = "built"
    /\ UNCHANGED <<archive, parseVars, getVars, nameVars, callerVars, otherVars,
                   treeInput>>

NextTree == BuildTree

SpecTree == InitTree /\ [][NextTree]_vars

\* the archives of the specifications that follow calls and their caller
MaxCallEntries == 2

CallEntries ==
    { Entry(PathFooNuspec, 4, "ok", "end", BytesGood),
      Entry(PathFooNuspec, 2, "ok", "end", BytesMalformed),
      Entry(PathReadmeMd, 2, "ok", "end", BytesHi),
      Entry(PathReadmeMd, 2, "err", "end", <<>>),
      CorruptEntry(PathReadmeMd),
      Entry(PathLibDll, 500, "ok", "end", BytesBinary) }

CallArchives == UNION { [1..n -> CallEntries] : n \in 0..MaxCallEntries }

\* the caller requests cancellation on the token it holds while its
\* parsePackage call is pending; the token is not handed to the call
Cancel ==
    /\ token = "none"
    /\ pc \in {"start", "scanning"}
    /\ outcome = "pending"
    /\ token' = "requested"
    /\ UNCHANGED <<archive, parseVars, getVars, nameVars, treeVars, otherVars,
                   previous>>

\* one parsePackage call whose caller may cancel
InitCancel ==
    /\ archive \in CallArchives
    /\ InitParse
    /\ IdleGet
    /\ IdleNames
    /\ IdleTree
    /\ IdleCaller
    /\ IdleOther

NextCancel ==
    \/ Next
    \/ Cancel

SpecCancel == InitCancel /\ [][NextCancel]_vars

\* how the call stands: the promise's state, reason and value
Settlement == [outcome |-> outcome, error |-> error, result |-> result]

\* a plausible slip: files lives outside the call and is not emptied
CallAgainKeepFiles ==
    /\ previous = Undefined
    /\ pc = "done" \/ Stalled
    /\ previous' = Def(Settlement)
    /\ pc' = "start"
    /\ zipfile' = "none"
    /\ entriesRead' = 0
    /\ readPending' = FALSE
    /\ opening' = {} /\ streams' = {} /\ decoding' = {}
    /\ files' = files
    /\ nuspecContent' = Undefined /\ iconData' = Undefined
    /\ metadata' = Undefined
    /\ readmeContent' = Undefined /\ readmePath' = Undefined
    /\ licenseContent' = Undefined /\ licensePath' = Undefined
    /\ mcpServerContent' = Undefined /\ mcpServerPath' = Undefined
    /\ outcome' = "pending" /\ error' = "none" /\ result' = Undefined
    /\ openCalls' = <<>>
    /\ closeCalls' = 0
    /\ UNCHANGED <<archive, getVars, nameVars, treeVars, otherVars, token>>

\* the caller, having seen how its call ended, calls parsePackage on the
\* same archive again: a new promise, a new handle, new locals
CallAgain ==
    /\ previous = Undefined
    /\ pc = "done" \/ Stalled
    /\ previous' = Def(Settlement)
    /\ pc' = "start"
    /\ zipfile' = "none"
    /\ entriesRead' = 0
    /\ readPending' = FALSE
    /\ opening' = {} /\ streams' = {} /\ decoding' = {}
    /\ files' = <<>>
    /\ nuspecContent' = Undefined /\ iconData' = Undefined
    /\ metadata' = Undefined
    /\ readmeContent' = Undefined /\ readmePath' = Undefined
    /\ licenseContent' = Undefined /\ licensePath' = Undefined
    /\ mcpServerContent' = Undefined /\ mcpServerPath' = Undefined
    /\ outcome' = "pending" /\ error' = "none" /\ result' = Undefined
    /\ openCalls' = <<>>
    /\ closeCalls' = 0
    /\ UNCHANGED <<archive, getVars, nameVars, treeVars, otherVars, token>>

\* two parsePackage calls, one after the other, on one archive
NextTwice ==
    \/ Next
    \/ CallAgain

SpecTwice == InitCancel /\ [][NextTwice]_vars

\* a parsePackage call and a getFileContent call on one package file,
\* their callbacks interleaved in any order
ConcurrentPaths == { PathReadmeMd, PathLibDll, PathLib }

InitConcurrent ==
    /\ archive \in CallArchives
    /\ filePath \in ConcurrentPaths
    /\ InitParse
    /\ InitGet
    /\ IdleNames
    /\ IdleTree
    /\ IdleCaller
    /\ IdleOther

NextConcurrent ==
    \/ Next
    \/ NextGet

SpecConcurrent == InitConcurrent /\ [][NextConcurrent]_vars

\* manifests that vary the scalar and the list elements
TextManifests ==
    { ManifestOf(Present("id", i) \cup Present("version", v)
                 \cup Present("title", t) \cup Present("authors", a)
                 \cup Present("tags", g) \cup Present("language", t)) :
        i \in ScalarVariants, v \in {Undefined, Def(TextElement(TextVersion))},
        t \in ScalarVariants, a \in ListVariants,
        g \in {Undefined, Def(TextElement(<<"x",","," ","y">>))} }

\* manifests that vary the flags
FlagManifests ==
    { ManifestOf(Present("id", Def(TextElement(TextFoo)))
                 \cup Present("serviceable", s)
                 \cup Present("developmentDependency", d)
                 \cup Present("requireLicenseAcceptance", r)) :
        s \in FlagVariants, d \in FlagVariants, r \in FlagVariants }

\* manifests that vary the elements read through their attributes
StructuredManifests ==
    { ManifestOf(Present("id", Def(TextElement(TextFoo)))
                 \cup Present("dependencies", d) \cup Present("packageTypes", p)
                 \cup Present("repository", r) \cup Present("license", l)) :
        d \in DependenciesVariants, p \in PackageTypesVariants,
        r \in RepositoryVariants, l \in LicenseVariants }

\* what the decoder gives for text that is not a manifest: a rejection,
\* another root, an empty package element, a package without metadata, an
\* empty metadata element
BrokenManifests ==
    { [wellFormed |-> FALSE, root |-> "none", element |-> EmptyElement],
      [wellFormed |-> TRUE, root |-> "other", element |-> EmptyElement],
      [wellFormed |-> TRUE, root |-> "package", element |-> EmptyElement],
      [wellFormed |-> TRUE, root |-> "package",
       element |-> XNode(<<>>, NoAttrs, "files" :> <<EmptyElement>>)],
      [wellFormed |-> TRUE, root |-> "package",
       element |-> XNode(<<>>, NoAttrs, "metadata" :> <<EmptyElement>>)] }

NuspecDocs ==
    TextManifests \cup FlagManifests \cup StructuredManifests \cup BrokenManifests

InitNuspec ==
    /\ archive = <<>>
    /\ nuspecDoc \in { Def(d) : d \in NuspecDocs }
    /\ nuspecPc = "new"
    /\ nuspecOut = Undefined
    /\ IdleParse
    /\ IdleGet
    /\ IdleNames
    /\ IdleTree
    /\ IdleCaller
    /\ IdleMime
    /\ IdleLog
    /\ IdleMcp
    /\ IdleEditor
    /\ IdleHost

\* the call parseNuspec(nuspecContent) from the decoded document on
ParseNuspecDoc ==
    /\ nuspecPc = "new"
    /\ nuspecOut' = Def(parseNuspecDoc(Val(nuspecDoc)))
    /\ nuspecPc' = "parsed"
    /\ UNCHANGED <<archive, parseVars, getVars, nameVars, treeVars, callerVars,
                   nuspecDoc, mimeVars, logVars, mcpVars, editorVars, lifeVars, memVars>>

NextNuspec == ParseNuspecDoc

SpecNuspec == InitNuspec /\ [][NextNuspec]_vars

(***************************************************************************)
(* getMimeType on its own: the type getFileContent reports for a path.     *)
(***************************************************************************)
MimeDirs == { <<>>, <<"l","i","b","/">>, <<"a",".","b","/">> }

MimeStems == { <<"F","o","o">>, <<>>, <<"x",".","y">> }

MimeEndings ==
    { row[1] : row \in mimeTypes }
    \cup { Ext(<<"M","D">>), Ext(<<"J","P","G">>), Ext(<<"J","p","e","g">>), Ext(<<"P","N","G">>), Ext(<<"S","v","g">>),
            Ext(<<"d","l","l">>), DotNuspec, Ext(<<"m","d","5">>), Ext(<<"m">>), <<".">>, <<>> }

MimePaths ==
    { d \o st \o e : d \in MimeDirs, st \in MimeStems, e \in MimeEndings }
        \ { <<>> }

InitMime ==
    /\ archive = <<>>
    /\ mimePath \in MimePaths
    /\ mimePc = "new"
    /\ mimeType = "none"
    /\ IdleParse
    /\ IdleGet
    /\ IdleNames
    /\ IdleTree
    /\ IdleCaller
    /\ IdleDoc
    /\ IdleLog
    /\ IdleMcp
    /\ IdleEditor
    /\ IdleHost

\* mimeType: this.getMimeType(filePath)
InferMimeType ==
    /\ mimePc = "new"
    /\ mimeType' = getMimeType(mimePath)
    /\ mimePc' = "inferred"
    /\ UNCHANGED <<archive, parseVars, getVars, nameVars, treeVars, callerVars,
                   docVars, logVars, mcpVars, editorVars, lifeVars, memVars, mimePath>>

NextMime == InferMimeType

SpecMime == InitMime /\ [][NextMime]_vars

(***************************************************************************)
(* Logging (extension.ts).  The configured level is read on every call;    *)
(* logLevelMap is an object literal, so a lookup also finds the members    *)
(* every object inherits.                                                  *)
(***************************************************************************)
Off == -1
Error == 0
Warn == 1
Info == 2
Verbose == 3
Trace == 4

\* the own keys of logLevelMap
logLevelMap ==
    { <<"off", Off>>, <<"error", Error>>, <<"warn", Warn>>, <<"info", Info>>,
      <<"verbose", Verbose>>, <<"trace", Trace>> }

\* names every object literal answers to without having them as own keys
InheritedKeys == { "constructor", "toString", "__proto__" }

\* logLevelMap[key]: a LogLevel, an inherited member that is no number, or
\* undefined
Lookup(key) ==
    IF \E row \in logLevelMap : row[1] = key
    THEN Def([number |-> TRUE,
              value |-> (CHOOSE row \in logLevelMap : row[1] = key)[2]])
    ELSE IF key \in InheritedKeys
    THEN Def([number |-> FALSE, value |-> 0])
    ELSE Undefined

\* config.get<string>('logLevel', 'info')
ConfigGet(configured) ==
    IF IsDefined(configured) THEN Val(configured) ELSE "info"

\* logLevelMap[logLevelString] ?? LogLevel.Info
getCurrentLogLevel ==
    LET found == Lookup(ConfigGet(logLevel))
    IN  IF IsDefined(found) THEN Val(found)
        ELSE [number |-> TRUE, value |-> Info]

\* a plausible slip: the comparison is strict
shouldLogStrict(messageLevel) ==
    LET currentLevel == getCurrentLogLevel
    IN  IF currentLevel.number /\ currentLevel.value = Off THEN FALSE
        ELSE currentLevel.number /\ messageLevel < currentLevel.value

\* shouldLog: a comparison with something that is no number is false
shouldLog(messageLevel) ==
    LET currentLevel == getCurrentLogLevel
    IN  IF currentLevel.number /\ currentLevel.value = Off THEN FALSE
        ELSE currentLevel.number /\ messageLevel <= currentLevel.value

MaxLogCalls == 2

\* the configured values: not set, the six names, and names the map lacks
ConfiguredLevels ==
    { Undefined } \cup
    { Def(key) : key \in { "off", "error", "warn", "info", "verbose", "trace",
                           "debug", "INFO", "", "constructor", "toString" } }

Line(method, message) == [method |-> method, message |-> message]

\* one call of a logging function that writes one line
LogCall(fn, messageLevel, method) ==
    /\ Len(logCalls) < MaxLogCalls
    /\ logCalls' = Append(logCalls, fn)
    /\ channel' = IF shouldLog(messageLevel)
                  THEN Append(channel, Line(method, "message"))
                  ELSE channel
    /\ UNCHANGED <<archive, parseVars, getVars, nameVars, treeVars, callerVars,
                   docVars, mimeVars, mcpVars, editorVars, lifeVars, memVars, logLevel>>

logInfo == LogCall("logInfo", Info, "info")

logWarning == LogCall("logWarning", Warn, "warn")

logDebug == LogCall("logDebug", Verbose, "debug")

logTrace == LogCall("logTrace", Trace, "trace")

\* logError(message, error?): a second line for the error when one is given
logError ==
    \E withError \in BOOLEAN :
        /\ Len(logCalls) < MaxLogCalls
        /\ logCalls' = Append(logCalls,
                              IF withError THEN "logErrorWithError" ELSE "logError")
        /\ channel' = IF ~shouldLog(Error) THEN channel
                      ELSE IF withError
                      THEN channel \o <<Line("error", "message"),
                                        Line("error", "stack")>>
                      ELSE Append(channel, Line("error", "message"))
        /\ UNCHANGED <<archive, parseVars, getVars, nameVars, treeVars,
                       callerVars, docVars, mimeVars, mcpVars, editorVars, lifeVars, memVars,
                       logLevel>>

InitLog ==
    /\ archive = <<>>
    /\ logLevel \in ConfiguredLevels
    /\ logCalls = <<>>
    /\ channel = <<>>
    /\ IdleParse
    /\ IdleGet
    /\ IdleNames
    /\ IdleTree
    /\ IdleCaller
    /\ IdleDoc
    /\ IdleMime
    /\ IdleMcp
    /\ IdleEditor
    /\ IdleHost

NextLog ==
    \/ logInfo
    \/ logError
    \/ logWarning
    \/ logDebug
    \/ logTrace

SpecLog == InitLog /\ [][NextLog]_vars

(***************************************************************************)
(* generateMcpStartupConfig (packageEditorProvider.ts).  A JSON object is  *)
(* a sequence of <<key, value>> pairs in insertion order; a property that  *)
(* may be missing is an Optional value.  The function returns the          *)
(* JSON.stringify text of startupConfig; the model keeps the object that   *)
(* text spells out, key order included.                                    *)
(***************************************************************************)
\* obj[key] = value: an existing key keeps its place
Put(obj, key, value) ==
    IF \E i \in 1..Len(obj) : obj[i][1] = key
    THEN [i \in 1..Len(obj) |-> IF obj[i][1] = key THEN <<key, value>> ELSE obj[i]]
    ELSE Append(obj, <<key, value>>)

\* x is truthy, for an optional string
Truthy(x) == IsDefined(x) /\ Val(x) # <<>>

\* x || fallback, for an optional string
OrElse(x, fallback) == IF Truthy(x) THEN Val(x) ELSE fallback

\* the input pushed for one entry of envVar.variables
InputOf(varName, config) ==
    [type |-> "promptString",
     id |-> varName,
     description |-> OrElse(config.description,
                            <<"C","o","n","f","i","g","u","r","a","t","i","o","n"," ","f","o","r"," ">> \o varName),
     password |-> (IsDefined(config.is_secret) /\ Val(config.is_secret))]

\* for (const [varName, varConfig] of Object.entries(envVar.variables))
RECURSIVE InputsOfVariables(_)
InputsOfVariables(variables) ==
    IF variables = <<>> THEN <<>>
    ELSE (IF Head(variables)[2].object
          THEN <<InputOf(Head(variables)[1], Head(variables)[2])>>
          ELSE <<>>)
         \o InputsOfVariables(Tail(variables))

\* for (const envVar of pkg.environment_variables), the inputs
RECURSIVE InputsOfEnvVars(_)
InputsOfEnvVars(envVars) ==
    IF envVars = <<>> THEN <<>>
    ELSE (IF IsDefined(Head(envVars).variables)
          THEN InputsOfVariables(Val(Head(envVars).variables))
          ELSE <<>>)
         \o InputsOfEnvVars(Tail(envVars))

\* a plausible slip: the type of the argument is not looked at
RECURSIVE AllArgValues(_)
AllArgValues(arguments) ==
    IF arguments = <<>> THEN <<>>
    ELSE (IF Truthy(Head(arguments).value)
          THEN <<Val(Head(arguments).value)>>
          ELSE <<>>)
         \o AllArgValues(Tail(arguments))

\* for (const arg of pkg.package_arguments): what is pushed to server.args
RECURSIVE PositionalValues(_)
PositionalValues(arguments) ==
    IF arguments = <<>> THEN <<>>
    ELSE (IF Head(arguments).type = "positional" /\ Truthy(Head(arguments).value)
          THEN <<Val(Head(arguments).value)>>
          ELSE <<>>)
         \o PositionalValues(Tail(arguments))

\* `${input:${varName}}`
InputReference(varName) == <<"$","{","i","n","p","u","t",":">> \o varName \o <<"}">>

\* for (const varName of Object.keys(envVar.variables))
\*     server.env[envVar.name] = ...
RECURSIVE EnvWithVariables(_, _, _)
EnvWithVariables(env, envName, variables) ==
    IF variables = <<>> THEN env
    ELSE EnvWithVariables(Put(env, envName, InputReference(Head(variables)[1])),
                          envName, Tail(variables))

\* for (const envVar of pkg.environment_variables), server.env
RECURSIVE EnvOfEnvVars(_, _)
EnvOfEnvVars(env, envVars) ==
    IF envVars = <<>> THEN env
    ELSE EnvOfEnvVars(
             IF Truthy(Head(envVars).name) /\ IsDefined(Head(envVars).variables)
             THEN EnvWithVariables(env, Val(Head(envVars).name),
                                   Val(Head(envVars).variables))
             ELSE env,
             Tail(envVars))

\* the server object of one named package
ServerOf(pkg) ==
    [type |-> "stdio",
     command |-> "dnx",
     args |-> << Val(pkg.name) \o <<"@">> \o OrElse(pkg.version, <<>>),
                 <<"-","-","y","e","s">>, <<"-","-">> >>
              \o (IF IsDefined(pkg.package_arguments)
                  THEN PositionalValues(Val(pkg.package_arguments))
                  ELSE <<>>),
     env |-> IF IsDefined(pkg.environment_variables)
             THEN Def(EnvOfEnvVars(<<>>, Val(pkg.environment_variables)))
             ELSE Undefined]

\* for (const pkg of serverConfig.packages)
RECURSIVE ProcessPackages(_, _)
ProcessPackages(config, pkgs) ==
    IF pkgs = <<>> THEN config
    ELSE LET pkg == Head(pkgs)
         IN  IF ~Truthy(pkg.name) THEN ProcessPackages(config, Tail(pkgs))
             ELSE ProcessPackages(
                      [inputs |-> config.inputs
                                  \o (IF IsDefined(pkg.environment_variables)
                                      THEN InputsOfEnvVars(Val(pkg.environment_variables))
                                      ELSE <<>>),
                       servers |-> Put(config.servers, Val(pkg.name), ServerOf(pkg))],
                      Tail(pkgs))

\* generateMcpStartupConfig: the object whose JSON text is returned
generateMcpStartupConfig(config) ==
    IF IsDefined(config.packages) /\ Val(config.packages).isArray
    THEN ProcessPackages([inputs |-> <<>>, servers |-> <<>>],
                         Val(config.packages).items)
    ELSE [inputs |-> <<>>, servers |-> <<>>]

\* descriptors
MaxPackages == 3

Variable(varName, description, secret) ==
    <<varName, [object |-> TRUE, description |-> description, is_secret |-> secret]>>

EnvVar(envName, variables) == [name |-> envName, variables |-> variables]

Argument(type, value) == [type |-> type, value |-> value]

Package(pkgName, version, arguments, envVars) ==
    [name |-> pkgName, version |-> version, package_arguments |-> arguments,
     environment_variables |-> envVars]

VarChoices == Variable(<<"w","e","a","t","h","e","r","_","c","h","o","i","c","e","s">>, Def(<<"C","o","m","m","a"," ","s","e","p","a","r","a","t","e","d"," ","l","i","s","t">>), Def(FALSE))
VarKey == Variable(<<"k","e","y">>, Def(<<"A","P","I"," ","k","e","y">>), Def(TRUE))
VarPlain == Variable(<<"p","l","a","i","n">>, Undefined, Undefined)
VarString == <<<<"t","e","x","t">>, [object |-> FALSE, description |-> Undefined,
                        is_secret |-> Undefined]>>

PackageTemplates ==
    { \* the package of the sample descriptor
      Package(Def(<<"A">>), Def(<<"0",".","6",".","0","-","b","e","t","a">>),
              Def(<<Argument("positional", Def(<<"m","c","p">>)),
                    Argument("positional", Def(<<"s","t","a","r","t">>))>>),
              Def(<<EnvVar(Def(<<"W","E","A","T","H","E","R","_","C","H","O","I","C","E","S">>), Def(<<VarChoices>>))>>)),
      \* no version, no arguments, no environment variables
      Package(Def(<<"A">>), Undefined, Undefined, Undefined),
      \* named and valueless arguments; variables without description or
      \* is_secret, a variable that is a string, several variables under
      \* one name, a name without variables, variables without a name
      Package(Def(<<"B">>), Def(<<"2",".","0">>),
              Def(<<Argument("named", Def(<<"-","-","x">>)),
                    Argument("positional", Undefined),
                    Argument("positional", Def(<<"r","u","n">>))>>),
              Def(<<EnvVar(Def(<<"K","E","Y","S">>), Def(<<VarKey, VarPlain, VarString>>)),
                    EnvVar(Def(<<"F","I","X","E","D">>), Undefined),
                    EnvVar(Undefined, Def(<<VarChoices>>)),
                    EnvVar(Def(<<"E","M","P","T","Y">>), Def(<<>>))>>)),
      \* empty arrays
      Package(Def(<<"B">>), Def(<<"1",".","0">>), Def(<<>>), Def(<<>>)),
      \* no name, and an empty name
      Package(Undefined, Def(<<"1",".","0">>), Undefined,
              Def(<<EnvVar(Def(<<"K","E","Y","S">>), Def(<<VarKey>>))>>)),
      Package(Def(<<>>), Def(<<"1",".","0">>), Def(<<Argument("positional", Def(<<"m","c","p">>))>>),
              Undefined) }

McpDescriptors ==
    { [packages |-> Undefined],
      [packages |-> Def([isArray |-> FALSE, items |-> <<>>])] }
    \cup { [packages |-> Def([isArray |-> TRUE, items |-> items])] :
             items \in UNION { [1..n -> PackageTemplates] : n \in 0..MaxPackages } }

InitMcp ==
    /\ archive = <<>>
    /\ serverConfig \in { Def(d) : d \in McpDescriptors }
    /\ mcpPc = "new"
    /\ startupConfig = Undefined
    /\ IdleParse
    /\ IdleGet
    /\ IdleNames
    /\ IdleTree
    /\ IdleCaller
    /\ IdleDoc
    /\ IdleMime
    /\ IdleLog
    /\ IdleEditor
    /\ IdleHost

GenerateMcpStartupConfig ==
    /\ mcpPc = "new"
    /\ startupConfig' = Def(generateMcpStartupConfig(Val(serverConfig)))
    /\ mcpPc' = "generated"
    /\ UNCHANGED <<archive, parseVars, getVars, nameVars, treeVars, callerVars,
                   docVars, mimeVars, logVars, editorVars, lifeVars, memVars, serverConfig>>

NextMcp == GenerateMcpStartupConfig

SpecMcp == InitMcp /\ [][NextMcp]_vars

(***************************************************************************)
(* The custom editor (packageEditorProvider.ts, resolveCustomEditor and    *)
(* handleOpenFile) while its panel is open.  parsePackage and              *)
(* getFileContent are taken by their outcome: either promise resolves or   *)
(* rejects.  Each message of the webview runs the handler on its own, so   *)
(* several getFileContent calls can be pending.                            *)
(***************************************************************************)
MaxRequests == 3

\* the paths the view asks for
RequestPaths == { PathReadmeMd, PathLibDll }

\* the message types of the webview script
MessageTypes == { "openFile", "openUrl", "installTemplate", "unknown" }

RequestsMade == Cardinality(inflight) + Len(answered)

Request(path) ==
    [id |-> RequestsMade + 1, filePath |-> path, after |-> Len(answered)]

Answer(request, ending) ==
    [id |-> request.id, filePath |-> request.filePath, after |-> request.after,
     ending |-> ending]

InitEditor ==
    /\ archive = <<>>
    /\ editorPc = "new"
    /\ html = "none"
    /\ surfaces = <<>>
    /\ handlerRegistered = FALSE
    /\ inflight = {}
    /\ answered = <<>>
    /\ posted = <<>>
    /\ IdleParse
    /\ IdleGet
    /\ IdleNames
    /\ IdleTree
    /\ IdleCaller
    /\ IdleDoc
    /\ IdleMime
    /\ IdleLog
    /\ IdleMcp
    /\ IdleHost

\* resolveCustomEditor up to its await: the loading surface
ResolveCustomEditor ==
    /\ editorPc = "new"
    /\ html' = "loading"
    /\ surfaces' = Append(surfaces, "loading")
    /\ editorPc' = "parsing"
    /\ UNCHANGED <<archive, parseVars, getVars, nameVars, treeVars, callerVars,
                   docVars, mimeVars, logVars, mcpVars, lifeVars, memVars, handlerRegistered,
                   inflight, answered, posted>>

\* parsePackage resolved: the package surface, then the message handler
OnPackageParsed ==
    /\ editorPc = "parsing"
    /\ html' = "package"
    /\ surfaces' = Append(surfaces, "package")
    /\ handlerRegistered' = TRUE
    /\ editorPc' = "ready"
    /\ UNCHANGED <<archive, parseVars, getVars, nameVars, treeVars, callerVars,
                   docVars, mimeVars, logVars, mcpVars, lifeVars, memVars, inflight, answered,
                   posted>>

\* a plausible slip: the handler is registered before the await
OnPackageFailedWithHandler ==
    /\ editorPc = "parsing"
    /\ html' = "error"
    /\ surfaces' = Append(surfaces, "error")
    /\ handlerRegistered' = TRUE
    /\ editorPc' = "failed"
    /\ UNCHANGED <<archive, parseVars, getVars, nameVars, treeVars, callerVars,
                   docVars, mimeVars, logVars, mcpVars, lifeVars, memVars, inflight, answered,
                   posted>>

\* parsePackage rejected: the catch branch, the error surface
OnPackageFailed ==
    /\ editorPc = "parsing"
    /\ html' = "error"
    /\ surfaces' = Append(surfaces, "error")
    /\ editorPc' = "failed"
    /\ UNCHANGED <<archive, parseVars, getVars, nameVars, treeVars, callerVars,
                   docVars, mimeVars, logVars, mcpVars, lifeVars, memVars, handlerRegistered,
                   inflight, answered, posted>>

\* the webview posts a message: without a registered handler nothing
\* receives it; openFile starts handleOpenFile; the other types post
\* nothing back
OnDidReceiveMessage ==
    \E type \in MessageTypes : \E path \in RequestPaths :
        /\ editorPc \in {"ready", "failed"}
        /\ RequestsMade < MaxRequests
        /\ IF ~handlerRegistered
           THEN /\ answered' = Append(answered, Answer(Request(path), "unheard"))
                /\ inflight' = inflight
           ELSE IF type = "openFile"
           THEN /\ inflight' = inflight \cup {Request(path)}
                /\ answered' = answered
           ELSE /\ answered' = Append(answered, Answer(Request(path), type))
                /\ inflight' = inflight
        /\ UNCHANGED <<archive, parseVars, getVars, nameVars, treeVars,
                       callerVars, docVars, mimeVars, logVars, mcpVars, lifeVars, memVars,
                       editorPc, html, surfaces, handlerRegistered, posted>>

\* handleOpenFile after its await, getFileContent resolved
OnFileContent ==
    \E request \in inflight :
        /\ posted' = Append(posted, [type |-> "fileContent",
                                     filePath |-> request.filePath])
        /\ inflight' = inflight \ {request}
        /\ answered' = Append(answered, Answer(request, "resolved"))
        /\ UNCHANGED <<archive, parseVars, getVars, nameVars, treeVars,
                       callerVars, docVars, mimeVars, logVars, mcpVars, lifeVars, memVars,
                       editorPc, html, surfaces, handlerRegistered>>

\* a plausible slip: the catch branch of handleOpenFile gives the view up
OnFileContentFailedGivingUp ==
    \E request \in inflight :
        /\ posted' = Append(posted, [type |-> "error", filePath |-> <<>>])
        /\ inflight' = inflight \ {request}
        /\ answered' = Append(answered, Answer(request, "rejected"))
        /\ handlerRegistered' = FALSE
        /\ html' = "error"
        /\ surfaces' = Append(surfaces, "error")
        /\ UNCHANGED <<archive, parseVars, getVars, nameVars, treeVars,
                       callerVars, docVars, mimeVars, logVars, mcpVars, lifeVars, memVars,
                       editorPc>>

\* handleOpenFile after its await, getFileContent rejected: the catch
\* branch posts an error message
OnFileContentFailed ==
    \E request \in inflight :
        /\ posted' = Append(posted, [type |-> "error", filePath |-> <<>>])
        /\ inflight' = inflight \ {request}
        /\ answered' = Append(answered, Answer(request, "rejected"))
        /\ UNCHANGED <<archive, parseVars, getVars, nameVars, treeVars,
                       callerVars, docVars, mimeVars, logVars, mcpVars, lifeVars, memVars,
                       editorPc, html, surfaces, handlerRegistered>>

NextEditor ==
    \/ ResolveCustomEditor
    \/ OnPackageParsed
    \/ OnPackageFailed
    \/ OnDidReceiveMessage
    \/ OnFileContent
    \/ OnFileContentFailed

SpecEditor == InitEditor /\ [][NextEditor]_vars

(***************************************************************************)
(* parsePackage on the package Foo 1.2.3: its manifest, one library, a     *)
(* readme and an icon, in every order of the central directory.  The       *)
(* archive is sound: it opens, every stream opens and reads to its end.    *)
(***************************************************************************)
PathFooDll == PathNet \o <<"F","o","o",".","d","l","l">>

BytesFooManifest == << <<60, 105>>, <<47, 62>> >>
BytesReadme == << <<104>>, <<105>> >>

FooEntries ==
    { Entry(PathFooNuspec, 4, "ok", "end", BytesFooManifest),
      Entry(PathFooDll, 500, "ok", "end", BytesBinary),
      Entry(PathReadmeMd, 2, "ok", "end", BytesReadme),
      Entry(PathIconPng, 2, "ok", "end", BytesBinary) }

\* the orders of the central directory
FooArchives ==
    { a \in [1..Cardinality(FooEntries) -> FooEntries] :
        \A i, j \in DOMAIN a : i # j => a[i] # a[j] }

InitEndToEnd ==
    /\ archive \in FooArchives
    /\ InitParse
    /\ IdleGet
    /\ IdleNames
    /\ IdleTree
    /\ IdleCaller
    /\ IdleOther

NextEndToEnd ==
    \/ Opened
    \/ OnEntry
    \/ OnOpenStream
    \/ OnData
    \/ OnNuspecEnd
    \/ OnNuspecParsed
    \/ OnContentEnd
    \/ OnEnd

SpecEndToEnd == InitEndToEnd /\ [][NextEndToEnd]_vars

(***************************************************************************)
(* parsePackage with the archive reader delivering its events: whenever    *)
(* an event of the call is due, one is eventually delivered.               *)
(***************************************************************************)
\* the 'end' event is due: every entry was handed over and a readEntry is
\* outstanding on the open handle
EndDue == readPending /\ zipfile = "open" /\ entriesRead = Len(archive)

\* the archive reader keeps delivering its events: each callback that is
\* scheduled runs in the end.  The fairness of the 'end' event is written
\* by its enabling condition, WF_vars(OnEnd) = []<>~EndDue \/ []<><<OnEnd>>_vars
\* and OnEnd leaves EndDue false.
Delivery ==
    /\ WF_vars(OpenFailed \/ Opened)
    /\ WF_vars(OnEntry)
    /\ WF_vars(OnOpenStreamError)
    /\ WF_vars(OnOpenStream)
    /\ WF_vars(OnData)
    /\ WF_vars(OnNuspecEnd)
    /\ WF_vars(OnNuspecParsed)
    /\ WF_vars(OnContentEnd)
    /\ WF_vars(OnStreamError)
    /\ WF_vars(OnError)
    /\ []<>~EndDue

SpecSettle == InitCancel /\ [][Next]_vars /\ Delivery

\* parsePackage on archives that hold several entries of one class with
\* different content
MaxClassEntries == 3

BytesBah == << <<98, 97>>, <<104>> >>
PathDocsReadmeTxt ==
    <<"d","o","c","s","/","r","e","a","d","m","e",".","t","x","t">>
PathLicenseTxt == <<"L","I","C","E","N","S","E",".","t","x","t">>

ClassEntries ==
    { Entry(PathFooNuspec, 4, "ok", "end", BytesGood),
      Entry(PathFooNuspec, 4, "ok", "end", BytesFooManifest),
      Entry(PathFooNuspec, 2, "ok", "end", BytesMalformed),
      Entry(PathIconPng, 2, "ok", "end", BytesBinary),
      Entry(PathIconsReadmePng, 3, "ok", "end", BytesBah),
      Entry(PathReadmeMd, 2, "ok", "end", BytesHi),
      Entry(PathDocsReadmeTxt, 3, "ok", "end", BytesBah),
      Entry(PathDocsReadmeTxt, 3, "err", "end", <<>>),
      CorruptEntry(PathReadmeMd),
      Entry(PathLicense, 2, "ok", "end", BytesHi),
      Entry(PathLicenseTxt, 3, "ok", "end", BytesBah),
      Entry(McpServerPath, 2, "ok", "end", BytesHi),
      Entry(McpServerPath, 3, "ok", "end", BytesBah) }

ClassArchives == UNION { [1..n -> ClassEntries] : n \in 0..MaxClassEntries }

InitClasses ==
    /\ archive \in ClassArchives
    /\ InitParse
    /\ IdleGet
    /\ IdleNames
    /\ IdleTree
    /\ IdleCaller
    /\ IdleOther

SpecClasses == InitClasses /\ [][Next]_vars

(***************************************************************************)
(* The provider's bookkeeping of documents and subscriptions               *)
(* (packageEditorProvider.ts).  A subscription is the Disposable returned  *)
(* by webview.onDidReceiveMessage ("message") or panel.onDidDispose        *)
(* ("panel").  The host closes a panel before it disposes the document.    *)
(* What the host's webview does when html is assigned after the panel was  *)
(* disposed is not part of the repository: both outcomes are followed, the *)
(* assignment throwing and the assignment being accepted.                  *)
(***************************************************************************)
Uris == { "a.nupkg", "b.nupkg" }

SubscriptionsOf(uri) == << <<uri, "message">>, <<uri, "panel">> >>

\* the elements of a sequence
Range(seq) == { seq[i] : i \in 1..Len(seq) }

InitLifecycle ==
    /\ archive = <<>>
    /\ provider = "active"
    /\ documents = [u \in Uris |-> "none"]
    /\ panels = [u \in Uris |-> "none"]
    /\ resolving = [u \in Uris |-> "none"]
    /\ activeDocuments = <<>>
    /\ registered = {}
    /\ disposed = {}
    /\ IdleParse
    /\ IdleGet
    /\ IdleNames
    /\ IdleTree
    /\ IdleCaller
    /\ IdleDoc
    /\ IdleMime
    /\ IdleLog
    /\ IdleMcp
    /\ IdleEditor
    /\ IdleMem

restOfLife == <<archive, parseVars, getVars, nameVars, treeVars, callerVars,
                docVars, mimeVars, logVars, mcpVars, editorVars, memVars>>

\* openCustomDocument(uri): the document is created and tracked
OpenCustomDocument(uri) ==
    /\ provider # "idle"
    /\ documents[uri] = "none"
    /\ documents' = [documents EXCEPT ![uri] = "open"]
    /\ activeDocuments' = (uri :> <<>>) @@ activeDocuments
    /\ UNCHANGED <<restOfLife, provider, panels, resolving, registered,
                   disposed>>

\* resolveCustomEditor(document, webviewPanel) up to its await
ResolveEditorFor(uri) ==
    /\ documents[uri] = "open"
    /\ resolving[uri] = "none"
    /\ panels' = [panels EXCEPT ![uri] = "open"]
    /\ resolving' = [resolving EXCEPT ![uri] = "parsing"]
    /\ UNCHANGED <<restOfLife, provider, documents, activeDocuments,
                   registered, disposed>>

\* resolveCustomEditor after parsePackage resolved: the package surface,
\* the two subscriptions, each pushed to the tracked entry if there is one
OnParsed(uri) ==
    /\ resolving[uri] = "parsing"
    /\ \/ /\ panels[uri] = "disposed"
          /\ resolving' = [resolving EXCEPT ![uri] = "threw"]
          /\ UNCHANGED <<activeDocuments, registered>>
       \/ /\ resolving' = [resolving EXCEPT ![uri] = "ready"]
          /\ registered' = registered \cup Range(SubscriptionsOf(uri))
          /\ activeDocuments' =
                IF uri \in DOMAIN activeDocuments
                THEN [activeDocuments EXCEPT
                        ![uri] = @ \o SubscriptionsOf(uri)]
                ELSE activeDocuments
    /\ UNCHANGED <<restOfLife, provider, documents, panels, disposed>>

\* resolveCustomEditor after parsePackage rejected: the error surface
OnParseFailed(uri) ==
    /\ resolving[uri] = "parsing"
    /\ resolving' = [resolving EXCEPT
                       ![uri] = IF panels[uri] = "disposed" THEN "threw"
                                ELSE "failed"]
    /\ UNCHANGED <<restOfLife, provider, documents, panels, activeDocuments,
                   registered, disposed>>

\* the user closes the editor: the host disposes the panel
ClosePanel(uri) ==
    /\ panels[uri] = "open"
    /\ panels' = [panels EXCEPT ![uri] = "disposed"]
    /\ UNCHANGED <<restOfLife, provider, documents, resolving,
                   activeDocuments, registered, disposed>>

\* document.dispose(): the tracked disposables are disposed and the entry
\* is deleted, if there is an entry
DocumentDispose(uri) ==
    /\ documents[uri] = "open"
    /\ panels[uri] = "disposed"
    /\ documents' = [documents EXCEPT ![uri] = "disposed"]
    /\ IF uri \in DOMAIN activeDocuments
       THEN /\ disposed' = disposed \cup Range(activeDocuments[uri])
            /\ activeDocuments' =
                  [u \in DOMAIN activeDocuments \ {uri} |-> activeDocuments[u]]
       ELSE UNCHANGED <<disposed, activeDocuments>>
    /\ UNCHANGED <<restOfLife, provider, panels, resolving, registered>>

\* provider.dispose(): every tracked disposable is disposed, the map is
\* cleared
ProviderDispose ==
    /\ provider = "active"
    /\ provider' = "disposed"
    /\ disposed' = disposed \cup
          UNION { Range(activeDocuments[u]) : u \in DOMAIN activeDocuments }
    /\ activeDocuments' = <<>>
    /\ UNCHANGED <<restOfLife, documents, panels, resolving, registered>>

NextLifecycle ==
    \/ \E uri \in Uris : OpenCustomDocument(uri)
    \/ \E uri \in Uris : ResolveEditorFor(uri)
    \/ \E uri \in Uris : OnParsed(uri)
    \/ \E uri \in Uris : OnParseFailed(uri)
    \/ \E uri \in Uris : ClosePanel(uri)
    \/ \E uri \in Uris : DocumentDispose(uri)
    \/ ProviderDispose

SpecLifecycle == InitLifecycle /\ [][NextLifecycle]_vars

(***************************************************************************)
(* LogMemory (logMemory.ts): a buffer of at most maxLogs messages.         *)
(***************************************************************************)
MaxCapacity == 3
MaxAdded == 4

Messages == { "m1", "m2", "m3" }

\* new LogMemory(maxLogs)
InitMemory ==
    /\ archive = <<>>
    /\ maxLogs \in 1..MaxCapacity
    /\ logs = <<>>
    /\ sinceClear = <<>>
    /\ IdleParse
    /\ IdleGet
    /\ IdleNames
    /\ IdleTree
    /\ IdleCaller
    /\ IdleDoc
    /\ IdleMime
    /\ IdleLog
    /\ IdleMcp
    /\ IdleEditor
    /\ IdleLife

restOfMemory == <<archive, parseVars, getVars, nameVars, treeVars, callerVars,
                  docVars, mimeVars, logVars, mcpVars, editorVars, lifeVars>>

\* a plausible slip: pop() for shift(), the newest message is dropped
addEvictNewest(message) ==
    /\ Len(sinceClear) < MaxAdded
    /\ LET pushed == Append(logs, message)
       IN  logs' = IF Len(pushed) > maxLogs
                   THEN SubSeq(pushed, 1, Len(pushed) - 1)
                   ELSE pushed
    /\ sinceClear' = Append(sinceClear, message)
    /\ UNCHANGED <<restOfMemory, maxLogs>>

\* add(message): push, then shift once when the buffer is over capacity
add(message) ==
    /\ Len(sinceClear) < MaxAdded
    /\ LET pushed == Append(logs, message)
       IN  logs' = IF Len(pushed) > maxLogs THEN Tail(pushed) ELSE pushed
    /\ sinceClear' = Append(sinceClear, message)
    /\ UNCHANGED <<restOfMemory, maxLogs>>

\* clear()
clear ==
    /\ sinceClear # <<>>
    /\ logs' = <<>>
    /\ sinceClear' = <<>>
    /\ UNCHANGED <<restOfMemory, maxLogs>>

NextMemory ==
    \/ \E message \in Messages : add(message)
    \/ clear

SpecMemory == InitMemory /\ [][NextMemory]_vars

(***************************************************************************)
(* Properties of parsePackage and getFileContent.                          *)
(***************************************************************************)
\* the parsePackage call ran its end-of-entries handler
EndProcessed ==
    pc = "done" /\ zipfile # "none" /\ entriesRead = Len(archive)

\* entry i is a manifest whose stream is read to its end (decoded or not)
ManifestRead(i) ==
    /\ endsWith(archive[i].fileName, DotNuspec)
    /\ archive[i].open = "ok"
    /\ archive[i].read = "end"

\* the text of entry i
TextOf(i) == toStringUtf8(BufferConcat(archive[i].data))

\* entry i is a manifest that decodes
ManifestDecodes(i) == ManifestRead(i) /\ TextOf(i) = TextGood

\* entry i is a manifest whose text does not decode
ManifestUndecodable(i) == ManifestRead(i) /\ TextOf(i) # TextGood

\* entry i is a manifest whose stream cannot be opened or fails when read
ManifestStreamFails(i) ==
    /\ endsWith(archive[i].fileName, DotNuspec)
    /\ (archive[i].open = "err" \/ archive[i].read = "error")

\* the stream of entry i is through: opened and ended, or failed
StreamThrough(i) ==
    /\ i <= entriesRead
    /\ i \notin opening
    /\ \A s \in streams : s.entry # i
    /\ \A d \in decoding : d.entry # i

\* C1: once the archive was opened, whenever the parsePackage call has
\* settled or has nothing scheduled any more (success, missing metadata,
\* reader error, an entry stream that failed to open or failed while read),
\* the archive handle has been closed.
C1_HandleClosedInEveryCase ==
    (zipfile # "none" /\ (outcome # "pending" \/ pc = "done" \/ Stalled))
        => zipfile = "closed"

\* C2: once the archive was opened, whenever the getFileContent call has
\* settled or has nothing scheduled any more (bytes returned, entry not
\* found, stream not opened, stream failed while read, reader error), its
\* archive handle has been closed.
C2_GetClosesOnEveryExit ==
    (getZipfile # "none"
        /\ (getOutcome # "pending" \/ getPc = "done" \/ GetStalled))
        => getZipfile = "closed"

\* C2 witness: the matching entry's stream failed while it was read, the
\* call was rejected with that error and the handle is closed
C2_Witness ==
    /\ getEntriesRead >= 1
    /\ archive[getEntriesRead].fileName = filePath
    /\ archive[getEntriesRead].read = "error"
    /\ getOutcome = "rejected" /\ getError = "StreamError"
    /\ getZipfile = "closed"

\* no entry of the archive has a path that ends with .nuspec
NoNuspecEntry ==
    \A i \in 1..Len(archive) : ~endsWith(archive[i].fileName, DotNuspec)

\* C3: on an archive without a .nuspec entry parsePackage never resolves and
\* delivers no PackageContent; once all entries are consumed and the end of
\* the entries is processed it is rejected with the missing-metadata error,
\* and it is rejected with that error only after all entries are consumed.
C3_NoManifestFails ==
    NoNuspecEntry =>
        /\ outcome # "resolved"
        /\ result = Undefined
        /\ EndProcessed =>
              (outcome = "rejected" /\ error = "MissingMetadataError")
        /\ error = "MissingMetadataError" => entriesRead = Len(archive)

\* C3 witness: an archive of two entries, none a manifest, was scanned to
\* its end and the call failed with the missing-metadata error
C3_Witness ==
    /\ NoNuspecEntry
    /\ Len(archive) >= 2
    /\ EndProcessed
    /\ error = "MissingMetadataError"

\* C4, the state part: when end-of-entries is processed every entry was
\* recorded, and the call failed with the missing-metadata error exactly
\* when no manifest entry decoded during the scan.
C4_OutcomeAtEnd ==
    EndProcessed =>
        /\ Len(files) = Len(archive)
        /\ (outcome = "rejected" /\ error = "MissingMetadataError")
              <=> ~(\E i \in 1..Len(archive) : ManifestDecodes(i))
        /\ outcome = "resolved"
              <=> (\E i \in 1..Len(archive) : ManifestDecodes(i))

\* C4, the step part: the step that ends a failed decode leaves metadata as
\* it was, settles nothing, keeps the handle open and asks for the next entry.
C4_DecodeFailureStep ==
    (\E d \in decoding : d.text # TextGood) =>
        (decoding' # decoding =>
            /\ metadata' = metadata
            /\ readPending'
            /\ outcome' = "pending"
            /\ zipfile' = "open")

\* C4: a manifest whose text fails to decode does not abort the scan: the
\* cursor advances, later entries are visited and recorded, metadata is left
\* as it was, and the outcome is decided at end-of-entries only.
C4_DecodeFailureDowngraded ==
    [](C4_OutcomeAtEnd) /\ [][C4_DecodeFailureStep]_vars

\* C4 witness: the first entry is a manifest that did not decode, a later
\* manifest decoded, and the call resolved
C4_Witness ==
    /\ Len(archive) >= 2
    /\ ManifestUndecodable(1)
    /\ EndProcessed
    /\ outcome = "resolved"

\* C5: once the stream of a manifest entry has failed (it could not be
\* opened, or it failed while read), the call is rejected with that stream
\* error, the cursor stays on that entry and no PackageContent is returned.
C5_ManifestStreamFailureAborts ==
    \A i \in 1..Len(archive) :
        (ManifestStreamFails(i) /\ StreamThrough(i)) =>
            /\ outcome = "rejected" /\ error = "StreamError"
            /\ entriesRead = i
            /\ result = Undefined

\* the content captured for the class of a stream that was read to its end
CapturedFor(class) ==
    IF class = "nuspec" THEN nuspecContent
    ELSE IF class = "icon" THEN iconData
    ELSE IF class = "readme" THEN readmeContent
    ELSE IF class = "license" THEN licenseContent
    ELSE mcpServerContent

\* what an entry read to its end leaves in the variable of its class
ContentOf(i, class) ==
    IF class = "icon" THEN BufferConcat(archive[i].data) ELSE TextOf(i)

\* C6: at most one entry stream is in flight at any time; while a readEntry
\* is pending (the cursor may advance) and once the end of the entries is
\* processed no stream is being opened, read or decoded; and when the cursor
\* is about to leave an entry whose stream was opened and read to its end,
\* that entry's content is stored.
C6_OneStreamAtATime ==
    /\ Cardinality(opening) + Cardinality(streams) + Cardinality(decoding) <= 1
    /\ (readPending \/ pc = "done") =>
          (opening = {} /\ streams = {} /\ decoding = {})
    /\ (readPending /\ openCalls # <<>>) =>
          LET call == openCalls[Len(openCalls)]
              i == call[1]
          IN  (i = entriesRead /\ archive[i].open = "ok") =>
                  /\ archive[i].read = "end"
                  /\ CapturedFor(call[2]) = Def(ContentOf(i, call[2]))

\* C6 witness: the cursor is about to leave a classified entry whose stream
\* delivered two chunks and ended, with further entries to come
C6_Witness ==
    /\ readPending
    /\ entriesRead >= 1
    /\ entriesRead < Len(archive)
    /\ ManifestRead(entriesRead)
    /\ Len(archive[entriesRead].data) = 2
    /\ nuspecContent = Def(TextOf(entriesRead))

\* the last segment of a path
LastSegment(path) ==
    LET parts == SplitPath(path) IN parts[Len(parts)]

\* C7: during the scan and when it reaches end-of-entries, the flat list
\* holds exactly one FileEntry per entry visited, in order: its path, the
\* last segment of the path, its uncompressed size, and isDirectory exactly
\* when the path ends with "/", whether or not the entry was classified and
\* whether or not its stream could be opened.
C7_OneFileEntryPerEntry ==
    pc = "scanning" =>
        /\ Len(files) = entriesRead
        /\ \A i \in 1..entriesRead :
              /\ files[i].path = archive[i].fileName
              /\ files[i].name = LastSegment(archive[i].fileName)
              /\ files[i].size = archive[i].uncompressedSize
              /\ files[i].isDirectory
                    <=> archive[i].fileName[Len(archive[i].fileName)] = "/"

\* C7 witness: the end of the entries is reached after a classified entry
\* whose stream could not be opened and a nested unclassified entry
C7_Witness ==
    /\ pc = "scanning"
    /\ readPending
    /\ entriesRead = Len(archive)
    /\ \E i, j \in 1..Len(archive) :
          /\ archive[i].open = "err"
          /\ archive[j].fileName = PathLibDll

(***************************************************************************)
(* Properties of the classification.                                       *)
(***************************************************************************)
\* C8 as stated: at most one of the five predicates holds of a file name.
C8_AtMostOnePredicate ==
    namePc = "classified" => Cardinality(matches) <= 1

\* the file names the claim lists, each with its only class
C8_Examples ==
    { <<<<"r","e","a","d","m","e",".","m","d">>, "readme">>,
      <<<<"f","o","o","/","i","c","o","n",".","p","n","g">>, "icon">>,
      <<McpServerPath, "mcp">>,
      <<<<"L","I","C","E","N","S","E">>, "license">>,
      <<<<"l","i","c","e","n","s","e",".","t","x","t">>, "license">> }

\* C8 amended: the manifest and icon predicates exclude each other, the
\* readme and license predicates exclude each other, and the MCP predicate
\* excludes the four others; a manifest or icon name can also be a readme or
\* a license name (readme.nuspec, icons/readme.png), so at most two
\* predicates hold of a name, and exactly one holds of each listed example.
C8_PredicateOverlaps ==
    namePc = "classified" =>
        /\ ~({"nuspec", "icon"} \subseteq matches)
        /\ ~({"readme", "license"} \subseteq matches)
        /\ "mcp" \in matches => matches = {"mcp"}
        /\ Cardinality(matches) <= 2
        /\ \A ex \in C8_Examples : name = ex[1] => matches = {ex[2]}

\* C8 witness: a name of which two predicates hold, manifest and readme
C8_Witness ==
    /\ namePc = "classified"
    /\ matches = {"nuspec", "readme"}

\* the class the rules give entry i when they are applied in the order
\* manifest, icon, readme, license, MCP descriptor
FirstRuleOf(i) ==
    LET fileName == archive[i].fileName
        lower == toLowerCase(fileName)
        base == toLowerCase(LastSegment(fileName))
        isManifest == endsWith(fileName, DotNuspec)
        isIcon == /\ \E ext \in iconExtensions : endsWith(lower, ext)
                  /\ includes(lower, <<"i","c","o","n">>)
        isReadme == \/ base = <<"r","e","a","d","m","e">>
                    \/ startsWith(base, <<"r","e","a","d","m","e",".">>)
        isLicense == \/ base \in licenseNames
                     \/ startsWith(base, <<"l","i","c","e","n","s","e",".">>)
                     \/ startsWith(base, <<"l","i","c","e","n","c","e",".">>)
        isMcp == lower = McpServerPath
    IN  CASE isManifest -> "nuspec"
          [] ~isManifest /\ isIcon -> "icon"
          [] ~isManifest /\ ~isIcon /\ isReadme -> "readme"
          [] ~isManifest /\ ~isIcon /\ ~isReadme /\ isLicense -> "license"
          [] ~isManifest /\ ~isIcon /\ ~isReadme /\ ~isLicense /\ isMcp -> "mcp"
          [] OTHER -> "none"

\* the openReadStream calls made for entry i
OpenCallsOf(i) == { k \in 1..Len(openCalls) : openCalls[k][1] = i }

\* C9, the state part: every entry visited has at most one openReadStream
\* call, made by the first rule that matches it, and none when no rule
\* matches; the path variables name entries of their own class.
C9_OneStreamPerEntry ==
    /\ \A i \in 1..entriesRead :
          IF FirstRuleOf(i) = "none"
          THEN OpenCallsOf(i) = {}
          ELSE /\ Cardinality(OpenCallsOf(i)) = 1
               /\ \A k \in OpenCallsOf(i) : openCalls[k][2] = FirstRuleOf(i)
    /\ \A s \in streams : s.class = FirstRuleOf(s.entry)

\* the classes whose captured content or path changes in a step
ChangedClasses ==
    { c \in {"nuspec", "icon", "readme", "license", "mcp"} :
        \/ c = "nuspec" /\ (nuspecContent' # nuspecContent \/ metadata' # metadata)
        \/ c = "icon" /\ iconData' # iconData
        \/ c = "readme" /\ (readmeContent' # readmeContent \/ readmePath' # readmePath)
        \/ c = "license" /\ (licenseContent' # licenseContent \/ licensePath' # licensePath)
        \/ c = "mcp" /\ (mcpServerContent' # mcpServerContent \/ mcpServerPath' # mcpServerPath) }

\* C9, the step part: a step changes the captured content or path of the
\* class of the entry the cursor is on after the step, and of no other.
C9_OneClassPerStep ==
    ChangedClasses \subseteq
        (IF entriesRead' >= 1 THEN {FirstRuleOf(entriesRead')} ELSE {})

\* C9: the rules are applied in the order manifest, icon, readme, license,
\* MCP descriptor and only the first that matches acts: one entry opens at
\* most one stream and updates at most one class, an entry that matches no
\* rule opens no stream.
C9_FirstMatchOnly ==
    [](C9_OneStreamPerEntry) /\ [][C9_OneClassPerStep]_vars

\* C9 witness: readme.nuspec, a name both the manifest and the readme rule
\* match, was read as a manifest and left the readme variables alone
C9_Witness ==
    /\ entriesRead >= 1
    /\ archive[entriesRead].fileName = PathReadmeNuspec
    /\ readPending
    /\ metadata # Undefined
    /\ readmePath = Undefined /\ readmeContent = Undefined

\* C10: in every PackageContent returned, readmeContent and readmePath are
\* present together or absent together, and so are licenseContent and
\* licensePath, and mcpServerContent and mcpServerPath.
C10_PairsTogether ==
    outcome = "resolved" =>
        LET r == Val(result)
        IN  /\ IsDefined(r.readmeContent) <=> IsDefined(r.readmePath)
            /\ IsDefined(r.licenseContent) <=> IsDefined(r.licensePath)
            /\ IsDefined(r.mcpServerContent) <=> IsDefined(r.mcpServerPath)

\* C11: at every point of the scan metadata being set implies nuspecContent
\* is set, so every PackageContent parsePackage resolves with carries the
\* manifest text.
C11_ManifestTextWithMetadata ==
    /\ IsDefined(metadata) => IsDefined(nuspecContent)
    /\ outcome = "resolved" =>
          /\ IsDefined(Val(result).metadata)
          /\ IsDefined(Val(result).nuspecContent)

\* C11 witness: a call that resolved with the text of the manifest it read
C11_Witness ==
    /\ outcome = "resolved"
    /\ Val(result).nuspecContent = Def(TextGood)

(***************************************************************************)
(* Properties of getFileContent.                                           *)
(***************************************************************************)
\* the entries whose path is exactly the requested one
TargetEntries == { i \in 1..Len(archive) : archive[i].fileName = filePath }

\* the first of them in central-directory order, 0 when there is none
FirstTarget ==
    IF TargetEntries = {} THEN 0
    ELSE CHOOSE i \in TargetEntries : \A j \in TargetEntries : i <= j

\* the bytes of entry i, its chunks one after the other
RECURSIVE Flatten(_)
Flatten(chunks) ==
    IF chunks = <<>> THEN <<>> ELSE Head(chunks) \o Flatten(Tail(chunks))

\* the call is over and the archive reader itself did not fail
GetFinished ==
    /\ getPc = "done"
    /\ getError \notin {"ArchiveOpenError", "ReaderError"}

\* C12: getFileContent resolves with the bytes of the entry whose path is
\* exactly the requested path (the first such entry, compared case-
\* sensitively and without normalisation) whenever it exists and its stream
\* is readable, and it fails with the file-not-found error if and only if
\* the iteration completed without an entry of that path.
C12_ExactPathMatch ==
    /\ GetFinished =>
          /\ (FirstTarget # 0 /\ archive[FirstTarget].open = "ok"
                              /\ archive[FirstTarget].read = "end") =>
                /\ getOutcome = "resolved"
                /\ Val(getResult).path = filePath
                /\ Val(getResult).content = Flatten(archive[FirstTarget].data)
                /\ getEntriesRead = FirstTarget
          /\ (getOutcome = "rejected" /\ getError = "FileNotFoundError")
                <=> (TargetEntries = {} /\ getEntriesRead = Len(archive))
    /\ getError = "FileNotFoundError" => GetFinished
    /\ getOutcome = "resolved" => GetFinished /\ FirstTarget # 0

\* C12 witness, found: README.md is the second entry and is returned
C12_Witness ==
    /\ GetFinished
    /\ getOutcome = "resolved"
    /\ FirstTarget = 2
    /\ Val(getResult).content = <<104, 105>>

\* C12 witness, not found: readme.md is asked of an archive holding
\* README.md
C12_WitnessCase ==
    /\ GetFinished
    /\ filePath = toLowerCase(PathReadmeMd)
    /\ \E i \in 1..Len(archive) : archive[i].fileName = PathReadmeMd
    /\ getError = "FileNotFoundError"

\* the stream of the first entry of the requested path fails
TargetStreamFails ==
    /\ FirstTarget # 0
    /\ \/ archive[FirstTarget].open = "err"
       \/ archive[FirstTarget].read = "error"

\* C13: when the matching entry is found and its stream cannot be opened or
\* fails while it is read, getFileContent fails with the stream error: it
\* never resolves, with partial content or otherwise, it never reports
\* file-not-found, and it does not stay pending.
C13_StreamFailureRejects ==
    (TargetStreamFails /\ getEntriesRead >= FirstTarget) =>
        /\ getOutcome # "resolved" /\ getResult = Undefined
        /\ getError \in {"none", "StreamError"}
        /\ getPc = "done" => (getOutcome = "rejected" /\ getError = "StreamError")
        /\ ~GetStalled

\* C13 witness: the stream of README.md failed after it was opened
C13_Witness ==
    /\ TargetStreamFails
    /\ archive[FirstTarget].open = "ok"
    /\ getPc = "done"
    /\ getError = "StreamError"

(***************************************************************************)
(* Properties of buildFileTree.                                            *)
(***************************************************************************)
\* the ids of the nodes of a level and of everything below, depth-first
RECURSIVE DepthFirst(_, _)
DepthFirst(h, ids) ==
    IF ids = <<>> THEN <<>>
    ELSE LET id == Head(ids)
             below == IF IsDefined(h.nodes[id].children)
                      THEN DepthFirst(h, Val(h.nodes[id].children))
                      ELSE <<>>
         IN  <<id>> \o below \o DepthFirst(h, Tail(ids))

\* the tree flattened depth-first: node ids, and the path at position k
Flattened == DepthFirst(treeHeap, treeHeap.tree)
PathAt(k) == treeHeap.nodes[Flattened[k]].path

\* the positions of the flattened tree that hold path p
PositionsOf(p) == { k \in 1..Len(Flattened) : PathAt(k) = p }

\* the paths of the flat list
InputPaths == { treeInput[i].path : i \in 1..Len(treeInput) }

\* the directories a path implies: its prefixes that end in a slash before
\* its last character
AncestorsOf(p) == { SubSeq(p, 1, k) : k \in { j \in 1..(Len(p) - 1) : p[j] = "/" } }
ImpliedDirs == UNION { AncestorsOf(p) : p \in InputPaths }

\* the directory a path lies in, <<>> at the top level
ParentDirOf(p) ==
    IF AncestorsOf(p) = {} THEN <<>>
    ELSE CHOOSE d \in AncestorsOf(p) : \A e \in AncestorsOf(p) : Len(e) <= Len(d)

\* the nodes whose children array holds node id
HoldersOf(id) ==
    { k \in 1..Len(treeHeap.nodes) :
        /\ IsDefined(treeHeap.nodes[k].children)
        /\ \E c \in 1..Len(Val(treeHeap.nodes[k].children)) :
              Val(treeHeap.nodes[k].children)[c] = id }

\* the node objects buildFileTree created itself
Synthesized == (Len(treeInput) + 1)..Len(treeHeap.nodes)

\* no path occurs twice in the flat list
NoDuplicatePaths ==
    \A i, j \in 1..Len(treeInput) :
        treeInput[i].path = treeInput[j].path => i = j

\* C14 as stated: every directory implied by some entry's path appears as
\* exactly one node of the tree, two files of one directory hang under the
\* same directory node, and every synthesized directory node has size 0
\* and isDirectory true.
C14_ImpliedDirectoryOnce ==
    treePc = "built" =>
        /\ \A d \in ImpliedDirs : Cardinality(PositionsOf(d)) = 1
        /\ \A i, j \in 1..Len(treeInput) :
              (/\ ParentDirOf(treeHeap.nodes[i].path) # <<>>
               /\ ParentDirOf(treeHeap.nodes[i].path)
                     = ParentDirOf(treeHeap.nodes[j].path)) =>
                  /\ HoldersOf(i) = HoldersOf(j)
                  /\ Cardinality(HoldersOf(i)) = 1
        /\ \A k \in Synthesized :
              /\ treeHeap.nodes[k].size = 0
              /\ treeHeap.nodes[k].isDirectory

\* the same without entries of equal path in the flat list
C14_ImpliedDirectoryOnceDistinct ==
    NoDuplicatePaths => C14_ImpliedDirectoryOnce

\* C15 as stated: no directory path occurs twice among the nodes of the
\* tree, an explicit directory entry included.
C15_NoDirectoryTwice ==
    treePc = "built" =>
        \A k, l \in 1..Len(Flattened) :
            (/\ treeHeap.nodes[Flattened[k]].isDirectory
             /\ PathAt(k) = PathAt(l)) => k = l

\* C16: for a flat list without duplicate paths, the tree flattened
\* depth-first holds exactly the paths of the list and the directories
\* they imply, each of them once.
C16_FlattenRoundTrip ==
    (treePc = "built" /\ NoDuplicatePaths) =>
        /\ { PathAt(k) : k \in 1..Len(Flattened) } = InputPaths \cup ImpliedDirs
        /\ \A k, l \in 1..Len(Flattened) : PathAt(k) = PathAt(l) => k = l
        /\ \A i \in 1..Len(treeInput) :
              Cardinality({ k \in 1..Len(Flattened) : Flattened[k] = i }) = 1

\* C16 witness: a list with an explicit directory that another path also
\* implies and a directory two levels down that no entry names
C16_Witness ==
    /\ treePc = "built"
    /\ NoDuplicatePaths
    /\ Len(treeInput) = 3
    /\ PathLib \in InputPaths
    /\ PathNet \in ImpliedDirs \ InputPaths
    /\ Synthesized # {}

\* C17 as stated: the top-level nodes of the tree are in ascending order
\* of path, synthesized directories included.
C17_TopLevelAscending ==
    treePc = "built" =>
        \A a, b \in 1..Len(treeHeap.tree) :
            a < b => localeCompare(treeHeap.nodes[treeHeap.tree[a]].path,
                                   treeHeap.nodes[treeHeap.tree[b]].path) <= 0

(***************************************************************************)
(* Properties of calls and their caller.                                   *)
(***************************************************************************)
\* C18 as stated: once the caller has raised the cancellation signal on a
\* pending parsePackage call, the call never resolves, so no
\* PackageContent is returned, and the archive handle it opened is closed
\* when nothing is scheduled for the call any more.
C18_CancelClosesAndNeverResolves ==
    token = "requested" =>
        /\ outcome # "resolved"
        /\ result = Undefined
        /\ (zipfile # "none" /\ (pc = "done" \/ Stalled)) => zipfile = "closed"

\* the failures of the archive reader itself, which are not in the archive
ReaderFailures == {"ArchiveOpenError", "ReaderError"}

\* C20: two parsePackage calls on the same unchanged archive end alike:
\* both fail, with the same error, or both return equal PackageContent
\* values (or neither settles).
C20_SameArchiveSameResult ==
    (/\ IsDefined(previous)
     /\ pc = "done" \/ Stalled
     /\ error \notin ReaderFailures
     /\ Val(previous).error \notin ReaderFailures) =>
        Settlement = Val(previous)

\* C20 witness: both calls resolved, on an archive with a readme
C20_Witness ==
    /\ IsDefined(previous)
    /\ pc = "done"
    /\ outcome = "resolved"
    /\ Val(previous).outcome = "resolved"
    /\ IsDefined(Val(result).readmeContent)
    /\ Len(archive) = 2

\* what a parsePackage call running alone holds after the entries from i
\* on, read one after the other; st is what it holds before entry i
RECURSIVE ScanAlone(_, _)
ScanAlone(i, st) ==
    IF i > Len(archive) THEN st
    ELSE LET e == archive[i]
             class == FirstRuleOf(i)
             bytes == Flatten(e.data)
             st1 == [st EXCEPT
                        !.files = Append(@, [path |-> e.fileName,
                                             name |-> LastSegment(e.fileName),
                                             size |-> e.uncompressedSize,
                                             isDirectory |-> endsWith(e.fileName, <<"/">>)]),
                        !.readmePath = IF class = "readme" THEN Def(e.fileName) ELSE @,
                        !.licensePath = IF class = "license" THEN Def(e.fileName) ELSE @,
                        !.mcpServerPath = IF class = "mcp" THEN Def(e.fileName) ELSE @]
             parsed == parseNuspec(toStringUtf8(bytes))
             st2 == [st1 EXCEPT
                        !.nuspecContent = IF class = "nuspec" THEN Def(toStringUtf8(bytes)) ELSE @,
                        !.metadata = IF class = "nuspec" /\ parsed.ok THEN parsed.value ELSE @,
                        !.iconData = IF class = "icon" THEN Def(bytes) ELSE @,
                        !.readmeContent = IF class = "readme" THEN Def(toStringUtf8(bytes)) ELSE @,
                        !.licenseContent = IF class = "license" THEN Def(toStringUtf8(bytes)) ELSE @,
                        !.mcpServerContent = IF class = "mcp" THEN Def(toStringUtf8(bytes)) ELSE @]
         IN  IF class = "none" \/ e.open = "err" THEN ScanAlone(i + 1, st1)
             ELSE IF e.read = "error" THEN [st1 EXCEPT !.stalled = TRUE]
             ELSE ScanAlone(i + 1, st2)

\* how a parsePackage call running alone on the archive ends
ParseAlone ==
    LET st == ScanAlone(1, [files |-> <<>>, stalled |-> FALSE,
                            nuspecContent |-> Undefined, iconData |-> Undefined,
                            metadata |-> Undefined,
                            readmeContent |-> Undefined, readmePath |-> Undefined,
                            licenseContent |-> Undefined, licensePath |-> Undefined,
                            mcpServerContent |-> Undefined,
                            mcpServerPath |-> Undefined])
        heap == buildFileTree(st.files)
    IN  IF st.stalled
        THEN [outcome |-> "pending", error |-> "none", result |-> Undefined]
        ELSE IF st.metadata = Undefined
        THEN [outcome |-> "rejected", error |-> "MissingMetadataError",
              result |-> Undefined]
        ELSE [outcome |-> "resolved", error |-> "none",
              result |-> Def([metadata |-> st.metadata,
                              files |-> [nodes |-> heap.nodes, tree |-> heap.tree],
                              nuspecContent |-> st.nuspecContent,
                              iconData |-> st.iconData,
                              readmeContent |-> st.readmeContent,
                              readmePath |-> st.readmePath,
                              licenseContent |-> st.licenseContent,
                              licensePath |-> st.licensePath,
                              mcpServerContent |-> st.mcpServerContent,
                              mcpServerPath |-> st.mcpServerPath])]

\* how a getFileContent call running alone on the archive ends
GetAlone ==
    IF FirstTarget = 0
    THEN [outcome |-> "rejected", error |-> "FileNotFoundError", result |-> Undefined]
    ELSE IF TargetStreamFails
    THEN [outcome |-> "rejected", error |-> "StreamError", result |-> Undefined]
    ELSE [outcome |-> "resolved", error |-> "none",
          result |-> Def([path |-> filePath,
                          content |-> Flatten(archive[FirstTarget].data),
                          mimeType |-> getMimeType(filePath)])]

\* each call ends as it would alone, and a handle is closed only by the
\* call that opened it
C19_EachCallAsAlone ==
    /\ ((pc = "done" \/ Stalled) /\ error \notin ReaderFailures) =>
          Settlement = ParseAlone
    /\ GetFinished =>
          [outcome |-> getOutcome, error |-> getError, result |-> getResult]
              = GetAlone
    /\ ~GetStalled
    /\ zipfile = "closed" => closeCalls >= 1
    /\ getZipfile = "closed" => getCloseCalls >= 1

\* a step belongs to one call and leaves the state of the other alone
C19_OneCallPerStep ==
    parseVars' = parseVars \/ getVars' = getVars

\* C19: a parsePackage call and a getFileContent call running concurrently
\* on the same file, their callbacks interleaved arbitrarily, each use
\* their own handle and share no state: each ends as it would alone, and
\* closing the handle of one does not affect the other.
C19_ConcurrentCallsIndependent ==
    [](C19_EachCallAsAlone) /\ [][C19_OneCallPerStep]_vars

\* C19 witness: getFileContent has closed its handle and resolved while
\* the parsePackage call is in the middle of its scan, handle open
C19_Witness ==
    /\ getPc = "done" /\ getOutcome = "resolved" /\ getZipfile = "closed"
    /\ pc = "scanning" /\ zipfile = "open"
    /\ entriesRead = 1 /\ Len(archive) = 2

(***************************************************************************)
(* Properties of parseNuspec.                                              *)
(***************************************************************************)
\* the manifest parsed and the metadata returned for it
DocMetadata == Val(ChildOf(Val(nuspecDoc).element, "metadata"))[1]
Returned == Val(Val(nuspecOut).value)
HasReturned == nuspecPc = "parsed" /\ Val(nuspecOut).ok

\* the first element of name key under the metadata element, as a set
ElementsNamed(key) ==
    IF key \in DOMAIN DocMetadata.kids THEN {DocMetadata.kids[key][1]} ELSE {}

\* the arrays of name key under the elements of a set
ArraysNamed(elements, key) ==
    { e.kids[key] : e \in { x \in elements : key \in DOMAIN x.kids } }

\* the group arrays and the bare dependency arrays of the manifest
GroupArrays == ArraysNamed(ElementsNamed("dependencies"), "group")
BareArrays == ArraysNamed(ElementsNamed("dependencies"), "dependency")

\* the number of dependency elements in a group
GroupSize(group) ==
    IF "dependency" \in DOMAIN group.kids THEN Len(group.kids["dependency"]) ELSE 0

\* the number of dependency elements in the groups before group g
RECURSIVE Offset(_, _)
Offset(groups, g) ==
    IF g <= 1 THEN 0 ELSE Offset(groups, g - 1) + GroupSize(groups[g - 1])

\* record r is the one of dependency element dep under framework tf
RecordOf(r, dep, tf) ==
    /\ r.id = AttrOf(dep, "id") /\ r.version = AttrOf(dep, "version")
    /\ r.exclude = AttrOf(dep, "exclude") /\ r.include = AttrOf(dep, "include")
    /\ r.targetFramework = tf

\* C21: parseNuspec returns one Dependency per dependency element: with
\* groups, every dependency of every group in document order, tagged with
\* the targetFramework of its group, and no bare dependency; without
\* groups, every bare dependency with targetFramework absent.
C21_OneDependencyPerElement ==
    HasReturned =>
        LET deps == Returned.dependencies
        IN  /\ \A groups \in GroupArrays :
                  /\ Len(deps) = Offset(groups, Len(groups) + 1)
                  /\ \A g \in 1..Len(groups) : \A d \in 1..GroupSize(groups[g]) :
                        RecordOf(deps[Offset(groups, g) + d],
                                 groups[g].kids["dependency"][d],
                                 AttrOf(groups[g], "targetFramework"))
            /\ GroupArrays = {} =>
                  /\ \A bare \in BareArrays :
                        /\ Len(deps) = Len(bare)
                        /\ \A d \in 1..Len(bare) :
                              RecordOf(deps[d], bare[d], Undefined)
                  /\ BareArrays = {} => deps = <<>>

\* C21 witness: groups of one and of two dependencies gave three records
C21_Witness ==
    /\ HasReturned
    /\ \E groups \in GroupArrays :
          Len(groups) = 2 /\ GroupSize(groups[1]) = 1 /\ GroupSize(groups[2]) = 2
    /\ Len(Returned.dependencies) = 3
    /\ Returned.dependencies[1].targetFramework = Def(TextNet6)
    /\ Returned.dependencies[3].targetFramework = Def(TextNet8)

\* C21 witness, both forms: one grouped and one bare dependency gave the
\* grouped one only
C21_WitnessBothForms ==
    /\ HasReturned
    /\ GroupArrays # {} /\ BareArrays # {}
    /\ Len(Returned.dependencies) = 1

\* the flag element of name key is present and its text is exactly true
ExactlyTrue(key) ==
    \E e \in ElementsNamed(key) : e.text = <<"t","r","u","e">>

\* C22: developmentDependency, serviceable and requireLicenseAcceptance
\* are true if and only if the element is present and its text is exactly
\* the literal true.
C22_OnlyLiteralTrue ==
    HasReturned =>
        /\ Returned.developmentDependency <=> ExactlyTrue("developmentDependency")
        /\ Returned.serviceable <=> ExactlyTrue("serviceable")
        /\ Returned.requireLicenseAcceptance
              <=> ExactlyTrue("requireLicenseAcceptance")

\* C22 witness: serviceable says maybe, developmentDependency says true,
\* requireLicenseAcceptance is missing
C22_Witness ==
    /\ HasReturned
    /\ \E e \in ElementsNamed("serviceable") : e.text = <<"m","a","y","b","e">>
    /\ ElementsNamed("requireLicenseAcceptance") = {}
    /\ Returned.developmentDependency
    /\ ~Returned.serviceable /\ ~Returned.requireLicenseAcceptance

\* the text of the element of name key, the empty string without it
TextNamed(key) ==
    IF ElementsNamed(key) = {} THEN <<>>
    ELSE (CHOOSE e \in ElementsNamed(key) : TRUE).text

\* what the list texts of the manifests split into
ListOf(text) ==
    CASE text = <<>> -> <<>>
      [] text = TextFoo -> <<TextFoo>>
      [] text = <<"a",","," ","b">> -> <<<<"a">>, <<"b">>>>
      [] text = <<"x",","," ","y">> -> <<<<"x">>, <<"y">>>>
      [] text = <<" ","a"," ",",",",","b"," ","c",","," ">> -> <<<<"a">>, <<"b"," ","c">>>>
      [] text = <<",">> -> <<>>

\* C23: id and version are always strings, empty without text; authors,
\* owners, tags, dependencies and packageTypes are always lists, the text
\* lists split on commas with the pieces trimmed and the empty ones
\* dropped; every other scalar without text is absent, never the empty
\* string.
C23_PopulatedFields ==
    HasReturned =>
        /\ Returned.id = TextNamed("id")
        /\ Returned.version = TextNamed("version")
        /\ Returned.authors = ListOf(TextNamed("authors"))
        /\ Returned.owners = ListOf(TextNamed("owners"))
        /\ Returned.tags = ListOf(TextNamed("tags"))
        /\ ElementsNamed("dependencies") = {} => Returned.dependencies = <<>>
        /\ ElementsNamed("packageTypes") = {} => Returned.packageTypes = <<>>
        /\ \A field \in {"title", "description", "licenseUrl", "license",
                         "projectUrl", "iconUrl", "releaseNotes", "copyright",
                         "language"} :
              /\ Returned[field] =
                    (IF TextNamed(field) = <<>> THEN Undefined
                     ELSE Def(TextNamed(field)))
        /\ ElementsNamed("repository") = {} =>
              /\ Returned.repositoryUrl = Undefined
              /\ Returned.repositoryType = Undefined
        /\ ElementsNamed("license") = {} => Returned.licenseType = Undefined

\* C23 witness: no id, an empty title, authors with blanks and empty pieces
C23_Witness ==
    /\ HasReturned
    /\ ElementsNamed("id") = {} /\ Returned.id = <<>>
    /\ ElementsNamed("title") = {EmptyElement} /\ Returned.title = Undefined
    /\ Returned.authors = <<<<"a">>, <<"b"," ","c">>>>
    /\ Returned.tags = <<>>

\* C24 as stated: parseNuspec fails only when the text is not well-formed
\* XML or the root or the metadata element is missing; a dependency, group
\* or packageType element without attributes degrades to absent or empty
\* values.
C24_FailsOnlyOnMissingRoot ==
    nuspecPc = "parsed" =>
        (Val(nuspecOut).ok <=>
            /\ Val(nuspecDoc).wellFormed
            /\ Val(nuspecDoc).root = "package"
            /\ "metadata" \in DOMAIN Val(nuspecDoc).element.kids)

(***************************************************************************)
(* Properties of the MCP descriptor test.                                  *)
(***************************************************************************)
McpUpperCase == <<".","M","C","P","/","S","E","R","V","E","R",".","J","S","O","N">>

\* the name is .mcp/server.json up to the case of each letter
IsMcpPathInSomeCase(fileName) ==
    /\ Len(fileName) = Len(McpServerPath)
    /\ \A i \in 1..Len(fileName) :
          fileName[i] \in {McpServerPath[i], McpUpperCase[i]}

\* C25: a file is the MCP descriptor if and only if its full path, in
\* lower case, is .mcp/server.json: the location is part of the test, a
\* server.json elsewhere is not a descriptor.
C25_McpDescriptorByFullPath ==
    namePc = "classified" =>
        /\ "mcp" \in matches <=> IsMcpPathInSomeCase(name)
        /\ name \in {McpServerPath, McpUpperCase} => "mcp" \in matches
        /\ name \in {<<"s","e","r","v","e","r",".","j","s","o","n">>, <<"f","o","o","/","s","e","r","v","e","r",".","j","s","o","n">>, <<"f","o","o","/","F","o","o",".","j","s","o","n">>,
                     <<".","m","c","p","/","F","o","o",".","j","s","o","n">>} => "mcp" \notin matches

\* C25 witness: the upper-case path was recognised
C25_Witness ==
    namePc = "classified" /\ name = McpUpperCase /\ "mcp" \in matches

\* C25 witness, elsewhere: server.json in another directory was not
C25_WitnessElsewhere ==
    namePc = "classified" /\ name = <<"f","o","o","/","s","e","r","v","e","r",".","j","s","o","n">> /\ "mcp" \notin matches

(***************************************************************************)
(* Properties of getMimeType.                                              *)
(***************************************************************************)
\* the final extension of a path: what follows the last dot of its last
\* segment, the dot included, when that dot is not the segment's first
\* character
FinalExtension(path) ==
    LET segment == LastSegment(path)
        dots == { i \in 2..Len(segment) : segment[i] = "." }
    IN  IF dots = {} THEN <<>>
        ELSE SubSeq(segment, CHOOSE i \in dots : \A j \in dots : j <= i,
                    Len(segment))

\* the type listed for a lower-case extension
ListedType(ext) ==
    CASE ext = <<".","t","x","t">> -> "text/plain"
      [] ext = <<".","m","d">> -> "text/markdown"
      [] ext = <<".","j","s","o","n">> -> "application/json"
      [] ext = <<".","x","m","l">> -> "application/xml"
      [] ext \in {<<".","y","m","l">>, <<".","y","a","m","l">>} -> "text/yaml"
      [] ext = <<".","c","s">> -> "text/x-csharp"
      [] ext = <<".","j","s">> -> "text/javascript"
      [] ext = <<".","t","s">> -> "text/typescript"
      [] ext = <<".","h","t","m","l">> -> "text/html"
      [] ext = <<".","c","s","s">> -> "text/css"
      [] ext = <<".","p","n","g">> -> "image/png"
      [] ext \in {<<".","j","p","g">>, <<".","j","p","e","g">>} -> "image/jpeg"
      [] ext = <<".","g","i","f">> -> "image/gif"
      [] ext = <<".","i","c","o">> -> "image/x-icon"
      [] ext = <<".","s","v","g">> -> "image/svg+xml"
      [] OTHER -> "application/octet-stream"

\* C29: the mimeType is a function of the lower-cased final extension of
\* the requested path only: a listed extension gives its listed type, any
\* other extension and no extension give application/octet-stream.
C29_MimeTypeByExtension ==
    mimePc = "inferred" =>
        mimeType = ListedType(toLowerCase(FinalExtension(mimePath)))

\* C29 witness: an upper-case .JPG in a dotted directory is image/jpeg
C29_Witness ==
    /\ mimePc = "inferred"
    /\ mimePath = <<"a",".","b","/","F","o","o",".","J","P","G">>
    /\ mimeType = "image/jpeg"

\* C29 witness, no extension: a name in a dotted directory is binary
C29_WitnessNoExtension ==
    /\ mimePc = "inferred"
    /\ mimePath = <<"a",".","b","/","F","o","o">>
    /\ mimeType = "application/octet-stream"

(***************************************************************************)
(* Properties of the logging functions.                                    *)
(***************************************************************************)
\* the levels from the least to the most verbose
LevelOrder == <<"off", "error", "warn", "info", "verbose", "trace">>

RankOf(level) == CHOOSE i \in 1..Len(LevelOrder) : LevelOrder[i] = level

\* the level a configured value stands for: itself when it names a level,
\* info otherwise
EffectiveLevel ==
    IF IsDefined(logLevel) /\ \E i \in 1..Len(LevelOrder) : LevelOrder[i] = Val(logLevel)
    THEN Val(logLevel)
    ELSE "info"

\* the level of the messages of a logging function
MessageLevelOf(fn) ==
    CASE fn = "logInfo" -> "info"
      [] fn = "logWarning" -> "warn"
      [] fn = "logDebug" -> "verbose"
      [] fn = "logTrace" -> "trace"
      [] fn \in {"logError", "logErrorWithError"} -> "error"

\* a message of the function is to be emitted under the configured value
Emits(fn) ==
    /\ EffectiveLevel # "off"
    /\ RankOf(MessageLevelOf(fn)) <= RankOf(EffectiveLevel)

\* the number of lines the calls should have written
RECURSIVE LinesDue(_)
LinesDue(calls) ==
    IF calls = <<>> THEN 0
    ELSE (IF ~Emits(Head(calls)) THEN 0
          ELSE IF Head(calls) = "logErrorWithError" THEN 2 ELSE 1)
         + LinesDue(Tail(calls))

\* C27 as stated: the levels are ordered Off < Error < Warn < Info <
\* Verbose < Trace, a message of level M is emitted if and only if the
\* configured level L is not off and M <= L, and a configured value that
\* names no level behaves as info.
C27_EmittedIffWithinLevel ==
    /\ Off < Error /\ Error < Warn /\ Warn < Info /\ Info < Verbose
    /\ Verbose < Trace
    /\ Len(channel) = LinesDue(logCalls)

(***************************************************************************)
(* Properties of generateMcpStartupConfig.                                 *)
(***************************************************************************)
\* the packages of the descriptor and the configuration generated
DescriptorPackages ==
    IF IsDefined(Val(serverConfig).packages) /\ Val(Val(serverConfig).packages).isArray
    THEN Val(Val(serverConfig).packages).items
    ELSE <<>>
Generated == Val(startupConfig)

HasText(x) == x # {} /\ x # {<<>>}
NamedPackages == { p \in 1..Len(DescriptorPackages) : HasText(DescriptorPackages[p].name) }
NameOfPackage(p) == CHOOSE n \in DescriptorPackages[p].name : TRUE

\* the environment variables and the arguments of package p
EnvVarsOf(p) ==
    IF DescriptorPackages[p].environment_variables = {} THEN <<>>
    ELSE CHOOSE es \in DescriptorPackages[p].environment_variables : TRUE
ArgumentsOf(p) ==
    IF DescriptorPackages[p].package_arguments = {} THEN <<>>
    ELSE CHOOSE as \in DescriptorPackages[p].package_arguments : TRUE
VariablesOf(p, e) ==
    IF EnvVarsOf(p)[e].variables = {} THEN <<>>
    ELSE CHOOSE vs \in EnvVarsOf(p)[e].variables : TRUE

\* the positions of the servers keyed by a name
ServersKeyed(n) == { i \in 1..Len(Generated.servers) : Generated.servers[i][1] = n }
ServerKeyed(n) == Generated.servers[CHOOSE i \in ServersKeyed(n) : TRUE][2]

\* the arguments of package p that are positional and have a value
PositionalOf(p) ==
    { k \in 1..Len(ArgumentsOf(p)) :
        ArgumentsOf(p)[k].type = "positional" /\ HasText(ArgumentsOf(p)[k].value) }

\* args is name@version, --yes, -- and then the positional values of
\* package p in their order
ArgsOfPackage(args, p) ==
    /\ Len(args) = 3 + Cardinality(PositionalOf(p))
    /\ args[1] = NameOfPackage(p) \o <<"@">> \o
                 (IF HasText(DescriptorPackages[p].version)
                  THEN CHOOSE v \in DescriptorPackages[p].version : TRUE
                  ELSE <<>>)
    /\ args[2] = <<"-","-","y","e","s">> /\ args[3] = <<"-","-">>
    /\ \A k \in PositionalOf(p) :
          args[3 + Cardinality({ j \in PositionalOf(p) : j <= k })]
              = CHOOSE v \in ArgumentsOf(p)[k].value : TRUE

\* the server is the one of package p, its env apart
ServerOfPackage(server, p) ==
    /\ server.type = "stdio" /\ server.command = "dnx"
    /\ ArgsOfPackage(server.args, p)

\* the variables of the environment variables of the named packages, as
\* <<package, environment variable, variable>> positions
VariablePositions ==
    { <<p, e, v>> \in NamedPackages \X (1..4) \X (1..3) :
        e <= Len(EnvVarsOf(p)) /\ v <= Len(VariablesOf(p, e)) }
ObjectVariables ==
    { t \in VariablePositions : VariablesOf(t[1], t[2])[t[3]][2].object }
Before(t, u) ==
    \/ t[1] < u[1]
    \/ t[1] = u[1] /\ t[2] < u[2]
    \/ t[1] = u[1] /\ t[2] = u[2] /\ t[3] < u[3]

\* input is the prompt of the variable at position t
InputOfVariable(input, t) ==
    LET variable == VariablesOf(t[1], t[2])[t[3]]
    IN  /\ input.type = "promptString"
        /\ input.id = variable[1]
        /\ HasText(variable[2].description) =>
              input.description \in variable[2].description
        /\ input.password = (variable[2].is_secret = {TRUE})

\* the inputs are the prompts of the variables in positions, in order
InputsOfPositions(positions) ==
    /\ Len(Generated.inputs) = Cardinality(positions)
    /\ \A t \in positions :
          InputOfVariable(
              Generated.inputs[1 + Cardinality({ u \in positions : Before(u, t) })], t)

\* the environment variables of package p that have a name
NamedEnvVars(p) ==
    { e \in 1..Len(EnvVarsOf(p)) : HasText(EnvVarsOf(p)[e].name) }
EnvKeyed(env, n) == { i \in 1..Len(env) : env[i][1] = n }

\* C26 as stated: every package with a name yields exactly one server
\* keyed by that name with type stdio, command dnx and args name@version,
\* --yes, -- and its positional values; every variable of every
\* environment variable yields one promptString input with its description
\* and password = is_secret; each named environment variable maps to the
\* reference of its variable; nameless packages are skipped; no packages,
\* no inputs and no servers.
C26_OneServerPerNamedPackage ==
    mcpPc = "generated" =>
        /\ \A p \in NamedPackages :
              /\ Cardinality(ServersKeyed(NameOfPackage(p))) = 1
              /\ ServerOfPackage(ServerKeyed(NameOfPackage(p)), p)
              /\ \A e \in NamedEnvVars(p) :
                    LET env == ServerKeyed(NameOfPackage(p)).env
                        n == CHOOSE n \in EnvVarsOf(p)[e].name : TRUE
                    IN  /\ env # {}
                        /\ \E i \in 1..Len(Val(env)) : \E v \in 1..3 :
                              /\ v <= Len(VariablesOf(p, e))
                              /\ Val(env)[i] =
                                    <<n, <<"$","{","i","n","p","u","t",":">> \o VariablesOf(p, e)[v][1] \o <<"}">>>>
        /\ InputsOfPositions(VariablePositions)
        /\ \A i \in 1..Len(Generated.servers) :
              \E p \in NamedPackages : NameOfPackage(p) = Generated.servers[i][1]
        /\ DescriptorPackages = <<>> =>
              Generated.inputs = <<>> /\ Generated.servers = <<>>

\* the last package that bears the name of package p
IsLastOfName(p) ==
    \A r \in NamedPackages : NameOfPackage(r) = NameOfPackage(p) => r <= p

\* the environment variables of package p that are mapped: those with a
\* name and at least one variable
MappedEnvVars(p) ==
    { e \in NamedEnvVars(p) : VariablesOf(p, e) # <<>> }

\* C26: the names of the named packages key the servers, one server per
\* name in the order the names first occur; the server of a name is built
\* from the last package of that name: type stdio, command dnx, args
\* name@version (version empty when missing), --yes, -- and the values of
\* its positional arguments that have one, in order; env exists when the
\* package has an environment_variables array and maps each name that has
\* variables to the reference of the last variable of the last such
\* environment variable; the inputs are one promptString per variable that
\* is an object, for every environment variable, named or not, of every
\* named package, in order, with its description when it has one and
\* password true exactly when is_secret is true; nameless packages give
\* nothing; no packages, no inputs and no servers.
C26_ServerPerName ==
    mcpPc = "generated" =>
        /\ \A p \in NamedPackages :
              /\ Cardinality(ServersKeyed(NameOfPackage(p))) = 1
              /\ IsLastOfName(p) =>
                    LET server == ServerKeyed(NameOfPackage(p))
                    IN  /\ ServerOfPackage(server, p)
                        /\ server.env = {}
                              <=> DescriptorPackages[p].environment_variables = {}
                        /\ server.env # {} =>
                              /\ \A i \in 1..Len(Val(server.env)) :
                                    /\ Cardinality(EnvKeyed(Val(server.env),
                                                            Val(server.env)[i][1])) = 1
                                    /\ \E e \in MappedEnvVars(p) :
                                          Val(server.env)[i][1] \in EnvVarsOf(p)[e].name
                              /\ \A e \in MappedEnvVars(p) :
                                    (\A f \in MappedEnvVars(p) :
                                        EnvVarsOf(p)[f].name = EnvVarsOf(p)[e].name
                                            => f <= e)
                                    => \E i \in 1..Len(Val(server.env)) :
                                          /\ Val(server.env)[i][1] \in EnvVarsOf(p)[e].name
                                          /\ Val(server.env)[i][2] =
                                                <<"$","{","i","n","p","u","t",":">>
                                                \o VariablesOf(p, e)[Len(VariablesOf(p, e))][1]
                                                \o <<"}">>
        /\ \A i, j \in 1..Len(Generated.servers) :
              i < j =>
                  \E p \in NamedPackages :
                      /\ NameOfPackage(p) = Generated.servers[i][1]
                      /\ \A r \in NamedPackages :
                            NameOfPackage(r) = Generated.servers[j][1] => p < r
        /\ \A i \in 1..Len(Generated.servers) :
              \E p \in NamedPackages : NameOfPackage(p) = Generated.servers[i][1]
        /\ InputsOfPositions(ObjectVariables)
        /\ \A i \in 1..Len(Generated.inputs) :
              Len(Generated.inputs[i].description) > 0
        /\ DescriptorPackages = <<>> =>
              Generated.inputs = <<>> /\ Generated.servers = <<>>

\* C26 witness: the sample descriptor gave one input and one server with
\* five args and the variable mapped
C26_Witness ==
    /\ mcpPc = "generated"
    /\ Len(DescriptorPackages) = 1
    /\ Len(Generated.inputs) = 1
    /\ Generated.inputs[1].id = <<"w","e","a","t","h","e","r","_","c","h","o","i","c","e","s">>
    /\ Generated.inputs[1].password = FALSE
    /\ Len(Generated.servers) = 1
    /\ Generated.servers[1][1] = <<"A">>
    /\ Generated.servers[1][2].args =
          <<<<"A","@","0",".","6",".","0","-","b","e","t","a">>, <<"-","-","y","e","s">>, <<"-","-">>, <<"m","c","p">>, <<"s","t","a","r","t">>>>
    /\ Generated.servers[1][2].env =
          Def(<< <<<<"W","E","A","T","H","E","R","_","C","H","O","I","C","E","S">>, <<"$","{","i","n","p","u","t",":","w","e","a","t","h","e","r","_","c","h","o","i","c","e","s","}">>>> >>)

\* C26 witness, shared name: two packages named A gave one server, that of
\* the second
C26_WitnessSharedName ==
    /\ mcpPc = "generated"
    /\ Len(DescriptorPackages) = 2
    /\ NamedPackages = {1, 2}
    /\ Cardinality(PositionalOf(1)) = 2 /\ ArgumentsOf(2) = <<>>
    /\ Len(Generated.servers) = 1
    /\ Generated.servers[1][2].args = <<<<"A","@">>, <<"-","-","y","e","s">>, <<"-","-">>>>
    /\ Len(Generated.inputs) = 1

(***************************************************************************)
(* Properties of the custom editor.                                        *)
(***************************************************************************)
\* the openFile requests that ended, oldest first
Served == SelectSeq(answered, LAMBDA a : a.ending \in {"resolved", "rejected"})

\* C28: after a failed parsePackage the view has shown the loading and the
\* error surface only, no handler is registered and nothing was posted;
\* after a successful one the package surface stays and the handler stays
\* registered whatever getFileContent does: every openFile request is
\* taken up, and each one that ended posted exactly one message, an error
\* message when getFileContent failed and the file content otherwise.
C28_ErrorsLeaveTheViewUsable ==
    /\ editorPc = "failed" =>
          /\ surfaces = <<"loading", "error">> /\ html = "error"
          /\ ~handlerRegistered
          /\ inflight = {} /\ posted = <<>>
    /\ editorPc = "ready" =>
          /\ surfaces = <<"loading", "package">> /\ html = "package"
          /\ handlerRegistered
          /\ \A i \in 1..Len(answered) : answered[i].ending # "unheard"
    /\ Len(posted) = Len(Served)
    /\ \A i \in 1..Len(Served) :
          IF Served[i].ending = "rejected"
          THEN posted[i].type = "error"
          ELSE posted[i] = [type |-> "fileContent", filePath |-> Served[i].filePath]

\* C28 witness: an openFile request made after another one had failed was
\* served
C28_Witness ==
    /\ editorPc = "ready"
    /\ Len(answered) = 2
    /\ answered[1].ending = "rejected"
    /\ answered[2].ending = "resolved" /\ answered[2].after = 1
    /\ posted = <<[type |-> "error", filePath |-> <<>>],
                  [type |-> "fileContent", filePath |-> answered[2].filePath]>>

\* C28 witness, failed parse: a message of the error surface found no
\* handler
C28_WitnessFailedParse ==
    /\ editorPc = "failed"
    /\ Len(answered) = 1 /\ answered[1].ending = "unheard"
    /\ posted = <<>>

(***************************************************************************)
(* Properties of parsePackage on the package Foo.                          *)
(***************************************************************************)
\* the tree of a result as nested records, children in their order
RECURSIVE NestedTree(_, _)
NestedTree(nodes, ids) ==
    [i \in 1..Len(ids) |->
        [path |-> nodes[ids[i]].path, name |-> nodes[ids[i]].name,
         size |-> nodes[ids[i]].size, isDirectory |-> nodes[ids[i]].isDirectory,
         children |-> IF nodes[ids[i]].children = {} THEN <<>>
                      ELSE NestedTree(nodes,
                                      CHOOSE c \in nodes[ids[i]].children : TRUE)]]

FileNode(path, nodeName, size) ==
    [path |-> path, name |-> nodeName, size |-> size, isDirectory |-> FALSE,
     children |-> <<>>]

DirectoryNode(path, nodeName, children) ==
    [path |-> path, name |-> nodeName, size |-> 0, isDirectory |-> TRUE,
     children |-> children]

\* lib holding net6.0 holding Foo.dll of 500 bytes
LibDirectory ==
    DirectoryNode(<<"l","i","b","/">>, <<"l","i","b">>,
        <<DirectoryNode(<<"l","i","b","/","n","e","t","6",".","0","/">>, <<"n","e","t","6",".","0">>,
            <<FileNode(<<"l","i","b","/","n","e","t","6",".","0","/","F","o","o",".","d","l","l">>, <<"F","o","o",".","d","l","l">>, 500)>>)>>)

\* C30: on the archive of package Foo, in every order of its entries,
\* parsePackage resolves with the metadata of the manifest (id Foo,
\* version 1.2.3, one dependency Bar [1.0.0,2.0.0) without target
\* framework), a tree whose top level is the directory lib, holding the
\* directory net6.0, holding the file Foo.dll of size 500, and the
\* manifest, the readme and the icon, with readmeContent the text of the
\* readme and iconData the bytes of the icon.
C30_PackageFooEndToEnd ==
    pc = "done" =>
        /\ outcome = "resolved"
        /\ LET content == Val(result)
               md == Val(content.metadata)
               top == NestedTree(content.files.nodes, content.files.tree)
           IN  /\ md.id = <<"F","o","o">> /\ md.version = <<"1",".","2",".","3">>
               /\ md.dependencies =
                     <<[id |-> {<<"B","a","r">>}, version |-> {<<"[","1",".","0",".","0",",","2",".","0",".","0",")">>},
                        targetFramework |-> {}, exclude |-> {}, include |-> {}]>>
               /\ md.authors = <<>> /\ md.packageTypes = <<>>
               /\ { top[i] : i \in 1..Len(top) } =
                     { LibDirectory,
                       FileNode(<<"F","o","o",".","n","u","s","p","e","c">>, <<"F","o","o",".","n","u","s","p","e","c">>, 4),
                       FileNode(<<"R","E","A","D","M","E",".","m","d">>, <<"R","E","A","D","M","E",".","m","d">>, 2),
                       FileNode(<<"i","c","o","n",".","p","n","g">>, <<"i","c","o","n",".","p","n","g">>, 2) }
               /\ Len(top) = 4
               /\ content.readmeContent = {<<"h","i">>}
               /\ content.iconData = {<<137, 105>>}

\* C30 witness: the call resolved on the archive whose manifest comes last
\* and whose library comes first
C30_Witness ==
    /\ pc = "done" /\ outcome = "resolved"
    /\ Len(archive) = 4
    /\ archive[1].fileName = <<"l","i","b","/","n","e","t","6",".","0","/","F","o","o",".","d","l","l">>
    /\ archive[4].fileName = <<"F","o","o",".","n","u","s","p","e","c">>
    /\ Val(Val(result).metadata).id = <<"F","o","o">>

(***************************************************************************)
(* Termination of parsePackage.                                            *)
(***************************************************************************)
\* C31 as stated: with the archive reader delivering its events, every
\* parsePackage call eventually settles, also when the stream of a
\* classified entry emits an error after it was opened.
C31_EveryCallSettles == <>(outcome # "pending")

\* the handlers of parsePackage that call resolve or reject
Settles == OpenFailed \/ OnEnd \/ OnError

\* the handlers of getFileContent that call resolve or reject
GetSettles ==
    \/ GetOpenFailed
    \/ GetOnOpenStreamError
    \/ GetOnStreamEnd
    \/ GetOnStreamError
    \/ GetOnEnd
    \/ GetOnError

\* C32: in parsePackage and in getFileContent the archive handle is closed
\* at most once per call, no readEntry or openReadStream is outstanding on
\* or issued to a closed handle, and no handler that resolves or rejects
\* runs once the promise is settled.
C32_ClosedOnceSettledOnce ==
    [][ /\ closeCalls' <= 1
        /\ getCloseCalls' <= 1
        /\ zipfile' = "closed" => ~readPending' /\ opening' = {}
        /\ getZipfile' = "closed" => ~getReadPending' /\ getOpening' = {}
        /\ zipfile = "closed" => openCalls' = openCalls /\ closeCalls' = closeCalls
        /\ getZipfile = "closed" => getStreams' \subseteq getStreams
                                    /\ getCloseCalls' = getCloseCalls
        /\ outcome # "pending" => ~Settles
        /\ getOutcome # "pending" => ~GetSettles ]_vars

\* both calls ran on one package file: parsePackage resolved, and
\* getFileContent was rejected by the failing stream of its entry; each
\* closed its handle once
C32_Witness ==
    /\ outcome = "resolved" /\ closeCalls = 1
    /\ getOutcome = "rejected" /\ getError = "StreamError"
    /\ getCloseCalls = 1

\* getFileContent has met an entry of the requested path
TargetMet == \E i \in 1..getEntriesRead : archive[i].fileName = filePath

\* C33: once getFileContent has met an entry whose path equals the
\* requested path, the entry cursor stays on it: no later entry is visited,
\* the file-not-found branch does not run, and a resolved call carries the
\* content of the first entry of that path in central-directory order.
C33_CursorStopsAtFirstMatch ==
    [][ TargetMet =>
          /\ getEntriesRead = FirstTarget
          /\ getEntriesRead' = getEntriesRead
          /\ ~getReadPending'
          /\ getError' # "FileNotFoundError"
          /\ getOutcome' = "resolved" =>
                Val(getResult').content = Flatten(archive[FirstTarget].data) ]_vars

\* the requested path is stored twice, with entries after the first one,
\* and the call resolved with the cursor on the first
C33_Witness ==
    /\ getOutcome = "resolved"
    /\ Cardinality(TargetEntries) >= 2
    /\ FirstTarget < Len(archive)
    /\ getEntriesRead = FirstTarget
    /\ \E i \in TargetEntries :
          Flatten(archive[i].data) # Val(getResult).content

\* the entries of a class whose stream was opened and read to its end
ReadToEnd(class) ==
    { i \in 1..Len(archive) :
        /\ FirstRuleOf(i) = class
        /\ archive[i].open = "ok"
        /\ archive[i].read = "end" }

\* the manifests that were read to their end and decoded
Decoded == { i \in ReadToEnd("nuspec") : parseNuspec(TextOf(i)).ok }

\* the last entry of a set in central-directory order
LastOf(entries) == CHOOSE i \in entries : \A j \in entries : j <= i

\* what the last entry of a class read to its end leaves for the class
LastCapture(class) ==
    IF ReadToEnd(class) = {} THEN Undefined
    ELSE Def(ContentOf(LastOf(ReadToEnd(class)), class))

\* C34: when several entries fall into one class, the value parsePackage
\* returns for the class is the one captured from the last such entry in
\* central-directory order whose stream was read to its end, and for the
\* metadata the one decoded from the last manifest that decodes: a later
\* capture replaces the earlier one whole.
C34_LastCaptureWins ==
    outcome = "resolved" =>
        LET r == Val(result)
        IN  /\ Decoded # {}
            /\ r.metadata = parseNuspec(TextOf(LastOf(Decoded))).value
            /\ r.iconData = LastCapture("icon")
            /\ r.readmeContent = LastCapture("readme")
            /\ r.licenseContent = LastCapture("license")
            /\ r.mcpServerContent = LastCapture("mcp")

\* two readmes of different content were read to their end, the later one
\* is returned
C34_Witness ==
    /\ outcome = "resolved"
    /\ Cardinality(ReadToEnd("readme")) = 2
    /\ \E i \in ReadToEnd("readme") :
          Def(TextOf(i)) # Val(result).readmeContent
    /\ Val(result).readmeContent = Def(TextOf(Len(archive)))

\* two manifests decoded to different metadata, the later one is returned
C34_WitnessMetadata ==
    /\ outcome = "resolved"
    /\ Cardinality(Decoded) = 2
    /\ \E i \in Decoded :
          parseNuspec(TextOf(i)).value # Val(result).metadata

\* C35 as stated: in every PackageContent returned by parsePackage,
\* nuspecContent is the exact text from which the returned metadata was
\* decoded, also when the archive holds several manifests and one of them
\* does not decode.
C35_TextOfReturnedMetadata ==
    outcome = "resolved" =>
        LET r == Val(result)
        IN  /\ IsDefined(r.nuspecContent)
            /\ parseNuspec(Val(r.nuspecContent)).ok
            /\ parseNuspec(Val(r.nuspecContent)).value = r.metadata

\* the children array of node id, empty when the node has none
ChildrenOf(id) ==
    IF IsDefined(treeHeap.nodes[id].children)
    THEN Val(treeHeap.nodes[id].children) ELSE <<>>

\* the places at which node id is attached: <<0, k>> is position k of the
\* top level, <<p, k>> is position k of the children of node p
PlacesOf(id) ==
    { <<0, k>> : k \in { k \in 1..Len(treeHeap.tree) : treeHeap.tree[k] = id } }
    \cup UNION { { <<p, k>> : k \in { k \in 1..Len(ChildrenOf(p)) :
                                          ChildrenOf(p)[k] = id } } :
                  p \in 1..Len(treeHeap.nodes) }

\* the segments of path extend those of parent by exactly one
ExtendsByOne(path, parent) ==
    /\ Len(SplitPath(path)) = Len(SplitPath(parent)) + 1
    /\ SubSeq(SplitPath(path), 1, Len(SplitPath(parent))) = SplitPath(parent)

\* C36: every tree returned by buildFileTree is well formed: only nodes
\* with isDirectory = true carry children, the path of a child extends the
\* path of its parent by exactly one segment (a top-level node has one
\* segment), each input entry is attached at exactly one place, and a file
\* entry named like a directory path without the trailing slash is never
\* the parent of other entries.
C36_TreeWellFormed ==
    treePc = "built" =>
        /\ \A p \in 1..Len(treeHeap.nodes) :
              /\ IsDefined(treeHeap.nodes[p].children) =>
                    treeHeap.nodes[p].isDirectory
              /\ ~endsWith(treeHeap.nodes[p].path, <<"/">>) =>
                    ChildrenOf(p) = <<>>
              /\ \A k \in 1..Len(ChildrenOf(p)) :
                    ExtendsByOne(treeHeap.nodes[ChildrenOf(p)[k]].path,
                                 treeHeap.nodes[p].path)
        /\ \A k \in 1..Len(treeHeap.tree) :
              Len(SplitPath(treeHeap.nodes[treeHeap.tree[k]].path)) = 1
        /\ \A id \in 1..Len(treeHeap.nodes) : Cardinality(PlacesOf(id)) = 1
        /\ Len(treeHeap.nodes) >= Len(treeInput)
        /\ \A i \in 1..Len(treeInput) :
              Cardinality({ j \in 1..Len(treeInput) :
                              treeInput[j].path = treeInput[i].path })
                = Cardinality({ j \in 1..Len(treeInput) :
                              treeHeap.nodes[j].path = treeInput[i].path })

\* the file lib is stored next to lib/Foo.dll: the file stays a leaf and a
\* directory lib/ of its own holds lib/Foo.dll
C36_Witness ==
    /\ treePc = "built"
    /\ \E f, d, c \in 1..Len(treeHeap.nodes) :
          /\ treeHeap.nodes[f].path = <<"l","i","b">>
          /\ ~treeHeap.nodes[f].isDirectory
          /\ ~IsDefined(treeHeap.nodes[f].children)
          /\ treeHeap.nodes[d].path = PathLib
          /\ treeHeap.nodes[c].path = PathLibDll
          /\ PlacesOf(c) = { <<d, 1>> }
          /\ PlacesOf(f) \cup PlacesOf(d) \subseteq { <<0, 1>>, <<0, 2>> }

\* every subscription made for a document that has been disposed is
\* disposed, and a disposed document has no entry in the map
DisposedWithDocument ==
    /\ \A s \in registered :
          documents[s[1]] = "disposed" => s \in disposed
    /\ \A uri \in Uris :
          documents[uri] = "disposed" => uri \notin DOMAIN activeDocuments

\* provider.dispose() leaves every subscription made so far disposed and
\* the map empty
DisposedWithProvider ==
    (provider = "active" /\ provider' = "disposed") =>
        /\ registered' \subseteq disposed'
        /\ DOMAIN activeDocuments' = {}

\* C37 as stated: every message-handler and panel-dispose subscription
\* that resolveCustomEditor registers for a document is disposed when the
\* document is disposed or when the provider is disposed, under every
\* interleaving, the document or the provider being disposed while
\* parsePackage is pending included; a disposed document has no entry in
\* activeDocuments and provider.dispose() leaves the map empty.
C37_SubscriptionsDisposed ==
    [](DisposedWithDocument) /\ [][DisposedWithProvider]_vars

\* the last n elements of a sequence, all of it when it is shorter
LastN(seq, n) ==
    IF Len(seq) <= n THEN seq ELSE SubSeq(seq, Len(seq) - n + 1, Len(seq))

\* C38: after any sequence of add and clear on a LogMemory of capacity
\* maxLogs >= 1 the buffer holds at most maxLogs messages, and they are the
\* most recent min(n, maxLogs) of the n messages added since the last
\* clear, in insertion order; after clear the buffer is empty.
C38_MostRecentKept ==
    maxLogs >= 1 =>
        /\ Len(logs) <= maxLogs
        /\ logs = LastN(sinceClear, maxLogs)
        /\ sinceClear = <<>> => logs = <<>>

\* a buffer of capacity 2 that was cleared or not, then took three
\* different messages: the oldest is evicted, the other two are kept in
\* order
C38_Witness ==
    /\ maxLogs = 2
    /\ sinceClear = <<"m1", "m2", "m3">>
    /\ logs = <<"m2", "m3">>

====
